---- MODULE Spec2Model ----
(***************************************************************************)
(* A model of the client-side resilience layer of llm_wrapper.mcp:         *)
(*   - CircuitBreaker (mcp/resilience.py), driven directly by concurrent   *)
(*     callers of CircuitBreaker.__call__            (specification Spec)  *)
(*   - MultiClientManager.call_tool / list_tools (mcp/client_manager.py),  *)
(*     which compose a breaker per server, a timeout and, for remote       *)
(*     clients, retry_with_backoff                (specification SpecMgr)  *)
(*                                                                         *)
(* Scheduling.  The code runs on one asyncio event loop: a coroutine runs  *)
(* until it awaits something that is not ready.  asyncio.Lock.acquire does *)
(* not suspend when the lock is free, and no coroutine suspends while it   *)
(* holds CircuitBreaker._lock (_check_state_transition has no await that   *)
(* suspends), so every `async with self._lock` block is one atomic step.   *)
(* The only suspension point of __call__ is `await func(...)`.             *)
(*                                                                         *)
(* Time.  time.monotonic() is the variable now, in whole ticks.            *)
(***************************************************************************)
EXTENDS Integers, Sequences, FiniteSets, TLC

\* ------------------------------------------------------------------ bounds
MaxCalls == 5
MaxTime == 4
MaxThreshold == 3
MaxResetTimeout == 2

\* The concurrent tasks that use the breaker or the manager.
Callers == {1, 2}

\* ------------------------------------------------------- outcomes of a call
None == [kind |-> "none", val |-> "none"]
Returned(v) == [kind |-> "return", val |-> v]
Raised(e) == [kind |-> "raise", val |-> e]

\* What a wrapped operation can do: return a value or raise an exception.
OpValues == {"r1", "r2"}
OpErrors == {"TimeoutError", "ConnectionError", "RuntimeError"}

\* --------------------------------------------------------- CircuitBreaker
\* CircuitBreaker.__init__                                 resilience.py:17-25
NewBreaker(failure_threshold, reset_timeout) ==
    [failure_threshold |-> failure_threshold,
     reset_timeout     |-> reset_timeout,
     failures          |-> 0,
     last_failure_time |-> 0,
     state             |-> "CLOSED"]

\* Variants of the breaker's methods with one plausible slip each, used to
\* show that the properties below depend on the code as written.
\* `>=` for `>` in the timeout comparison:
CheckStateTransitionAtTimeout(b, t) ==
    IF b.state = "OPEN" /\ t - b.last_failure_time >= b.reset_timeout
    THEN [b EXCEPT !.state = "HALF_OPEN"]
    ELSE b
\* no timeout comparison at all:
CheckStateTransitionNoTimer(b, t) ==
    IF b.state = "OPEN" THEN [b EXCEPT !.state = "HALF_OPEN"] ELSE b
\* the counter reset moved into the HALF_OPEN branch:
RecordSuccessOnlyHalfOpen(b) ==
    IF b.state = "HALF_OPEN"
    THEN [b EXCEPT !.state = "CLOSED", !.failures = 0]
    ELSE b
\* `>` for `>=` in the threshold comparison:
RecordFailureOffByOne(b, t) ==
    LET f == b.failures + 1
    IN  [b EXCEPT !.failures = f,
                  !.last_failure_time = t,
                  !.state = IF b.state = "HALF_OPEN" \/ f > b.failure_threshold
                            THEN "OPEN"
                            ELSE b.state]
\* an early return when the breaker is already OPEN:
RecordFailureIgnoredWhenOpen(b, t) ==
    IF b.state = "OPEN" THEN b
    ELSE LET f == b.failures + 1
         IN  [b EXCEPT !.failures = f,
                       !.last_failure_time = t,
                       !.state = IF b.state = "HALF_OPEN" \/ f >= b.failure_threshold
                                 THEN "OPEN"
                                 ELSE b.state]
\* a success that closes the breaker from any state:
RecordSuccessForcesClosed(b) ==
    [b EXCEPT !.state = "CLOSED", !.failures = 0]
\* a success that closes a HALF_OPEN breaker and keeps the counter:
RecordSuccessKeepsCounter(b) ==
    [b EXCEPT !.state = IF b.state = "HALF_OPEN" THEN "CLOSED" ELSE b.state]
\* the operation's exception replaced by the breaker's own:
CallRaiseWrapped(e) == [kind |-> "raise", val |-> "CircuitBreakerOpenError"]

\* CircuitBreaker._check_state_transition at time t        resilience.py:31-37
CheckStateTransition(b, t) ==
    IF b.state = "OPEN" /\ t - b.last_failure_time > b.reset_timeout
    THEN [b EXCEPT !.state = "HALF_OPEN"]
    ELSE b

\* CircuitBreaker.record_success                           resilience.py:39-44
RecordSuccess(b) ==
    [b EXCEPT !.state = IF b.state = "HALF_OPEN" THEN "CLOSED" ELSE b.state,
              !.failures = 0]

\* CircuitBreaker.record_failure at time t                 resilience.py:46-53
RecordFailure(b, t) ==
    LET f == b.failures + 1
    IN  [b EXCEPT !.failures = f,
                  !.last_failure_time = t,
                  !.state = IF b.state = "HALF_OPEN" \/ f >= b.failure_threshold
                            THEN "OPEN"
                            ELSE b.state]

\* The gate of __call__ (lines 60-68): the breaker after the transition
\* check, and whether the call is let through to func.
GateBreaker(b, t) == CheckStateTransition(b, t)
GateAdmits(b, t) == GateBreaker(b, t).state # "OPEN"

\* What __call__ hands to its caller.
\* line 65: raise CircuitBreakerOpenError(...)
CallRejected == Raised("CircuitBreakerOpenError")
\* line 74: return result
CallReturn(v) == Returned(v)
\* line 77: raise e
CallRaise(e) == Raised(e)

VARIABLES
    now,            \* time.monotonic()
    cb,             \* the CircuitBreaker under test
    pc,             \* per caller: "idle" | "running" (inside await func())
    received,       \* per caller: what its last __call__ returned or raised
    op_outcome,     \* per caller: what its last admitted func did (observer)
    admitted_in,    \* per caller: breaker state when its call was admitted
    attempts,       \* number of __call__ invocations so far (observer)
    op_calls,       \* number of invocations of func so far (observer)
    consec,         \* failing operations since the last successful one
    max_consec,     \* longest run of consecutive failing operations so far
    total_failed,   \* failing operations so far
    ref_state,      \* state per the transition rules of the design (observer)
    last_event      \* the last thing that happened at the breaker (observer)

cbVars == <<cb, pc, received, op_outcome, admitted_in, attempts, op_calls,
            consec, max_consec, total_failed, ref_state, last_event>>

\* ----------------------------------------------------- MultiClientManager
\* The servers of the configuration (the demo configuration of
\* client_manager.py:234-254: one local, one remote).
Servers == {"local_dev_server", "remote_prod_server"}
ServerType(s) == IF s = "local_dev_server" THEN "local" ELSE "remote"
\* The server_name argument, or default_server, when absent (Python None).
NoServer == "None"
\* A name no server is configured under.
UnknownServer == "unconfigured"

\* _initialize_clients, lines 64-65: the breaker's parameters when
\* client_config gives none.
DefaultFailureThreshold == 3
DefaultResetTimeout == 30
\* The parameters of a client_config that sets cb_failure_threshold and
\* cb_reset_timeout.
TunedFailureThreshold == 2
TunedResetTimeout == 1
\* call_tool, line 196: retry_with_backoff(..., max_retries=3, ...)
ToolCallMaxRetries == 3
\* call_tool, line 197: catch_exceptions; asyncio.TimeoutError is the
\* builtin TimeoutError.
ToolCallRetryable == {"TimeoutError", "ConnectionError"}
MaxMgrCalls == 2
MaxMgrTime == 2

\* What a client's call_tool / list_tools can do (MCPClient interface).
\* The content of a result is a text, written as the sequence of its parts.
ClientResults == {[success |-> TRUE, content |-> <<"r1">>],
                  [success |-> FALSE, content |-> <<"tool reported an error">>]}
ClientErrors == {"TimeoutError", "ConnectionError", "RuntimeError"}
\* StdioMCPClient.call_tool / list_tools (stdio_client.py:54-73): without a
\* session they raise RuntimeError at once; PlaceholderRemoteClient has no
\* session.
NotConnected(s, sess) == ServerType(s) = "local" /\ ~sess[s]
ClientMayReturn(s, sess) == ~NotConnected(s, sess)
ClientMayRaise(s, sess) ==
    IF NotConnected(s, sess) THEN {"RuntimeError"} ELSE ClientErrors

\* call_tool, lines 171-180: the ValueErrors raised before the try block.
NoTargetError == "ValueError: No target server specified and no default server configured."
NoClientError == "ValueError: No client found for server"
\* A variant that prefers the configured default to the explicit name.
ResolveTargetDefaultFirst(server_name, default) ==
    IF default # NoServer THEN default ELSE server_name
\* call_tool, lines 171-176.
ResolveTarget(server_name, default) ==
    IF server_name # NoServer THEN server_name ELSE default
\* call_tool, lines 207-217: the result each except clause returns.
BreakerOpenResult ==
    [success |-> FALSE,
     content |-> <<"Tool call failed: ", "Service temporarily unavailable (",
                   "CircuitBreakerOpenError", ")">>]
TimeoutResult ==
    [success |-> FALSE, content |-> <<"Tool call failed: ", "Timeout after 30s.">>]
ErrorResult(e) ==
    [success |-> FALSE, content |-> <<"Tool call failed: ", e>>]
\* A variant whose timeout clause answers like the clause for an open breaker.
CallToolHandlerOneShape(e) ==
    IF e \in {"CircuitBreakerOpenError", "TimeoutError"}
    THEN Returned(BreakerOpenResult)
    ELSE Returned(ErrorResult(e))
\* A variant whose timeout clause re-raises instead of returning a result.
CallToolHandlerReraisesTimeout(e) ==
    IF e = "CircuitBreakerOpenError" THEN Returned(BreakerOpenResult)
    ELSE IF e = "TimeoutError" THEN Raised(e)
    ELSE Returned(ErrorResult(e))
CallToolHandler(e) ==
    IF e = "CircuitBreakerOpenError" THEN Returned(BreakerOpenResult)
    ELSE IF e = "TimeoutError" THEN Returned(TimeoutResult)
    ELSE Returned(ErrorResult(e))
\* A variant whose except clauses all record a failure.
HandlerRecordsEveryFailure(b, t, e) == RecordFailure(b, t)
\* lines 212 and 216: the except clauses for a timeout and for any other
\* Exception call cb.record_failure(); the clause for
\* CircuitBreakerOpenError (207-209) does not.
HandlerRecordsFailure(b, t, e) ==
    IF e = "CircuitBreakerOpenError" THEN b ELSE RecordFailure(b, t)
\* A variant in which only __call__ records the failure.
BreakerAfterFailedCallOnce(b, t, e) == RecordFailure(b, t)
\* A failed func inside cb(...): __call__ records the failure (line 76) and
\* re-raises, and the manager's except clause records again.
BreakerAfterFailedCall(b, t, e) == HandlerRecordsFailure(RecordFailure(b, t), t, e)
\* A variant that wraps the calls of every client in retry_with_backoff.
RetryContinuesAnyClient(s, i, e) ==
    /\ e \in ToolCallRetryable
    /\ i < ToolCallMaxRetries
\* retry_with_backoff, lines 114-129, as call_tool uses it: whether failed
\* attempt i (0-based) that raised e is followed by a sleep and a retry.
\* Only calls on a PlaceholderRemoteClient are wrapped (line 192).
RetryContinues(s, i, e) ==
    /\ ServerType(s) = "remote"
    /\ e \in ToolCallRetryable
    /\ i < ToolCallMaxRetries

VARIABLES
    clients,        \* MultiClientManager._clients: the servers with a client
    default_server, \* McpConfig.default_server, or NoServer
    session,        \* per local server: StdioMCPClient._session is set
    cbs,            \* MultiClientManager._circuit_breakers
    m_pc,           \* per caller: idle | calling | sleeping | listing
    m_target,       \* per caller: the server its call_tool resolved to
    m_attempt,      \* per caller: index i of retry_with_backoff's loop
    m_units,        \* per caller: list_tools' unit of work per server
    m_done,         \* the manager call that ended in the step just taken,
                    \* if one did: its caller, target, what it returned or
                    \* raised, and how it ended (observer)
    m_calls,        \* manager calls started so far (observer)
    m_consec        \* per server: failed manager operations since the last
                    \* successful one (observer)

mgrVars == <<clients, default_server, session, cbs, m_pc, m_target, m_attempt,
             m_units, m_done, m_calls, m_consec>>

\* ------------------------------------------------------ retry_with_backoff
\* retry_with_backoff's defaults (resilience.py:86-89); jitter 0.1 is written
\* in percent.
DefaultInitialDelay == 1
DefaultMaxDelay == 10
DefaultJitterPercent == 10
\* client_manager.py:15, in seconds.
DEFAULT_TOOL_CALL_TIMEOUT == 30
\* Times are counted in ticks, so that the jitter is a whole number of them.
TicksPerSecond == 10
\* The largest max_retries argument a bare retry_with_backoff is given; the
\* sleep after the fifth failure is the first one that max_delay cuts.
MaxRetries == 5
\* client_config["timeout"] of a server (config.py:11, 17; the demo
\* configuration at client_manager.py:242 sets 60): absent, or seconds.
ConfiguredTimeouts == {<<>>, <<10>>, <<60>>}

RECURSIVE Pow2(_)
Pow2(i) == IF i = 0 THEN 1 ELSE 2 * Pow2(i - 1)
Min(a, b) == IF a < b THEN a ELSE b
\* A variant that does not cut the sleep time at max_delay.
SleepTimesUncapped(i) ==
    LET delay == DefaultInitialDelay * TicksPerSecond
    IN  {delay * Pow2(i) + j :
            j \in {0, (delay * DefaultJitterPercent) \div 100}}
\* line 120: sleep_time = min(delay * 2**i + uniform(0, delay * jitter),
\* max_delay), with the two ends of the jitter's range.
SleepTimes(i) ==
    LET delay == DefaultInitialDelay * TicksPerSecond
    IN  {Min(delay * Pow2(i) + j, DefaultMaxDelay * TicksPerSecond) :
            j \in {0, (delay * DefaultJitterPercent) \div 100}}
\* The timeout _perform_call gives asyncio.wait_for (line 186): the module
\* constant, whatever the server's client_config says.
CallTimeout(cfg) == DEFAULT_TOOL_CALL_TIMEOUT
\* A variant whose loop runs max_retries times.
RetryDecisionNoExtraAttempt(i, e, max_retries) ==
    IF e \notin ToolCallRetryable THEN "raise"
    ELSE IF i + 1 < max_retries THEN "sleep"
    ELSE "exhausted"
\* A variant that treats every error as retryable.
RetryDecisionCatchAll(i, e, max_retries) ==
    IF i < max_retries THEN "sleep" ELSE "exhausted"
\* A variant that gives up at the first timeout.
RetryDecisionStopsOnTimeout(i, e, max_retries) ==
    IF e \notin ToolCallRetryable \/ e = "TimeoutError" THEN "raise"
    ELSE IF i < max_retries THEN "sleep"
    ELSE "exhausted"
\* lines 114-129: what the loop does when func raises e in iteration i.
RetryDecision(i, e, max_retries) ==
    IF e \notin ToolCallRetryable THEN "raise"
    ELSE IF i < max_retries THEN "sleep"
    ELSE "exhausted"

VARIABLES
    r_use,      \* who runs func: "bare" (retry_with_backoff on its own),
                \* or call_tool on a "local" or a "remote" server
    r_max,      \* the max_retries argument
    r_cfg,      \* the server's configured timeout (call_tool only)
    r_pc,       \* start | calling | sleeping | done
    r_i,        \* the loop index i
    r_last,     \* last_exception
    r_result,   \* what the caller got: returned value or raised error
    r_invoked,  \* invocations of func so far (observer)
    r_errors,   \* the errors func raised, in order (observer)
    r_sleeps,   \* the sleep times so far, in ticks (observer)
    r_hung,     \* invocations ended by the timeout of wait_for (observer)
    r_elapsed   \* ticks since the call started (observer)

retryVars == <<r_use, r_max, r_cfg, r_pc, r_i, r_last, r_result, r_invoked,
               r_errors, r_sleeps, r_hung, r_elapsed>>

\* ------------------------------------- manager scopes and MCPManager listing
\* The servers of the manager whose scope is followed, in the order of its
\* client dictionary (registration order), all of them subprocess servers.
RegOrder == <<"filesystem", "git">>
Registered == {RegOrder[i] : i \in 1..Len(RegOrder)}
\* get_all_tools calls started at most.
MaxGetCalls == 1
\* initialize_all calls at most, and register_server calls at most.
MaxInitCalls == 2
MaxRegisterCalls == 1

\* A variant that leaves a failing server out of the dictionary.
ToolsEntryDropsFailed(outcome) ==
    IF outcome.kind = "return" THEN "tools" ELSE "absent"
\* manager.py:52-58: the entry get_all_tools stores for a server whose
\* list_tools returned its tools, or raised.
ToolsEntry(outcome) ==
    IF outcome.kind = "return" THEN "tools" ELSE "empty"
\* manager.py:72-74: shutdown returns at once unless _is_initialized.
ShutdownSkips(initialized) == ~initialized

VARIABLES
    l_mgr,      \* the manager followed: "multi" (MultiClientManager used as
                \* an async context manager) or "mcp" (MCPManager, with
                \* initialize_all at the start of the scope and shutdown at
                \* its end)
    l_phase,    \* new | starting | inside | closing | ended
    l_exit,     \* how the scope ended: none | normal | error | startup_failed
    l_conn,     \* per server: idle | connecting | spawned | entered |
                \* connected | failed
    l_proc,     \* per server: its process is none | running | exited
    l_sess,     \* per server: the client's session is set
    l_stack,    \* MultiClientManager._exit_stack: the servers whose
                \* connect() context it holds, in entry order
    l_init      \* MCPManager._is_initialized

VARIABLES
    l_clients,  \* the manager's client dictionary: the servers it holds a
                \* client for
    l_close,    \* per server, the close of its session at shutdown:
                \* none | pending | ok | raised
    l_shut,     \* how the shutdown ended: none | returned | raised
    l_hangs,    \* the servers whose close never completes
    l_live,     \* per server: child processes started and not yet ended
    l_inits,    \* initialize_all calls so far (observer)
    l_regs,     \* register_server calls so far (observer)
    l_call      \* the last list_tools/call_tool on a client (observer)

closeVars == <<l_clients, l_close, l_shut, l_hangs>>
connVars == <<l_live, l_inits, l_regs, l_call>>

lifeVars == <<l_mgr, l_phase, l_exit, l_conn, l_proc, l_sess, l_stack, l_init,
              closeVars, connVars>>

VARIABLES
    g_pc,       \* get_all_tools: idle | fetching
    g_at,       \* index in RegOrder of the client being asked
    g_tools,    \* all_tools so far: per server absent | tools | empty
    g_result,   \* what the last finished get_all_tools gave its caller
    g_hung,     \* the servers whose list_tools never completes
    g_calls     \* get_all_tools calls started (observer)

getVars == <<g_pc, g_at, g_tools, g_result, g_hung, g_calls>>

\* ----------------------------------------------- one StdioMCPClient in use
\* connect, disconnect, list_tools and call_tool calls at most.
MaxClientOps == 4

VARIABLES
    k_ctx,      \* the connect() context: none | entering | entered
    k_session,  \* self._session is set
    k_process,  \* self._process is set
    k_proc,     \* the child process: none | running | exited
    k_dis,      \* the disconnect() in progress: idle | waiting (terminate
                \* sent, in wait_for) | killed (kill sent, in wait)
    k_signals,  \* the signals the disconnect in progress or last ended has
                \* sent (observer)
    k_timed,    \* its wait_for has timed out (observer)
    k_result,   \* the last operation ended and how (observer)
    k_ops,      \* operations started (observer)
    k_call      \* the list_tools or call_tool request in flight on the
                \* session: none | pending

clientVars == <<k_ctx, k_session, k_process, k_proc, k_dis, k_signals,
                k_timed, k_result, k_ops, k_call>>

\* ------------------------------------ MultiClientManager under construction
\* What a server definition's config attribute holds when the manager is
\* constructed: the LocalServerConfig / RemoteServerConfig instance that
\* ServerDefinition.model_post_init puts there when the configuration is
\* validated (config.py:24-28), or the plain mapping of a definition built
\* without validation.
Validated == "model"
Unvalidated == "dict"
\* The client_config entry of a server's config (config.py:11, 17): not
\* given, null, empty, or with one or both of the breaker's parameters.
ClientConfigs == {"absent", "null", "empty", "threshold_only", "tuned"}
\* The types of a definition: the pattern of config.py:21 admits local and
\* remote; a definition built without validation can carry any other.
ServerTypes == {"local", "remote", "other"}
\* A server missing from mcpServers.
NotConfigured == [type |-> "none", holds |-> "none", client_config |-> "none"]
ServerDefinitions ==
    {d \in [type : ServerTypes, holds : {Validated, Unvalidated},
            client_config : ClientConfigs] :
        d.holds = Validated => d.type # "other"}
\* The order of mcpServers.items().
BuildOrder == <<"local_dev_server", "remote_prod_server">>

\* client_config.get(key, default), lines 64-65.
ConfiguredOr(client_config, key, default) ==
    IF client_config = "tuned" THEN
        (IF key = "cb_failure_threshold" THEN TunedFailureThreshold
                                         ELSE TunedResetTimeout)
    ELSE IF client_config = "threshold_only" /\ key = "cb_failure_threshold"
    THEN TunedFailureThreshold
    ELSE default

\* lines 63-67: the breaker stored for a definition, <<>> when building it
\* raises.  server_def.config.get("client_config", {}) raises AttributeError
\* on a validated definition, whose config is a pydantic model and has no
\* get method; on a mapping it gives the entry, and the second get raises
\* AttributeError when the entry is null.
BreakerFor(d) ==
    IF d.holds = Validated THEN <<>>
    ELSE IF d.client_config = "null" THEN <<>>
    ELSE <<NewBreaker(ConfiguredOr(d.client_config, "cb_failure_threshold",
                                   DefaultFailureThreshold),
                      ConfiguredOr(d.client_config, "cb_reset_timeout",
                                   DefaultResetTimeout))>>

\* lines 69-86: the client stored for a definition whose breaker was built:
\* by type, and only when config is an instance of the type's config class
\* (TypeError otherwise, lines 70-71 and 80-81); none for another type.
ClientFor(d) ==
    IF BreakerFor(d) = <<>> THEN "none"
    ELSE IF d.type = "local" THEN
        (IF d.holds = Validated THEN "StdioMCPClient" ELSE "none")
    ELSE IF d.type = "remote" THEN
        (IF d.holds = Validated THEN "PlaceholderRemoteClient" ELSE "none")
    ELSE "none"

\* Whether the loop body raised for a definition (caught at lines 87-88).
InitializationRaises(d) ==
    \/ BreakerFor(d) = <<>>
    \/ d.type \in {"local", "remote"} /\ d.holds # Validated

VARIABLES
    b_config,   \* McpConfig.mcpServers: per server its definition, or
                \* NotConfigured
    b_pos,      \* servers the loop of _initialize_clients has dealt with
    b_clients,  \* _clients: per server the class of its client, or none
    b_breakers, \* _circuit_breakers: per server <<its breaker>>, or <<>>
    b_raised    \* the servers whose initialisation raised (observer)

buildVars == <<b_config, b_pos, b_clients, b_breakers, b_raised>>

\* ----------------------------------------------------------- RequestRouter
\* generate_with_fallback calls followed at most.
MaxRouterCalls == 2

\* A prompt, as far as determine_route looks at it (router.py:55-97): the
\* tag it carries, and whether _is_high_complexity holds for it (longer than
\* 200 characters, or matching one of the patterns).
RouteTags == {"none", "@local", "@cloud", "@provider"}
Prompts == [tag : RouteTags, complex : BOOLEAN]

\* determine_route, lines 55-76: the client a prompt goes to.
DetermineRoute(prompt) ==
    IF prompt.tag = "@local" THEN "local"
    ELSE IF prompt.tag \in {"@cloud", "@provider"} THEN "provider"
    ELSE IF prompt.complex THEN "provider"
    ELSE "local"

\* What subprocess.run(["gemini", "-p", prompt], check=True) can do
\* (providers/local_client.py:12-17): exit 0 with the answer on stdout, exit
\* 0 with an error report of the CLI on stdout, a non-zero exit
\* (CalledProcessError) with some text or with an error report of the CLI on
\* stderr, or another exception (the command is not installed).
LocalRuns == {"answer", "cli_error_on_stdout", "exit_nonzero",
              "exit_nonzero_cli_error", "not_installed"}
\* What model.generate_content_async can do (providers/remote_client.py:27):
\* give candidates, or raise.
ProviderRuns == {"answer", "sdk_error"}
\* A client whose generate raises (BaseLLMClient.generate, core/base.py:21,
\* promises nothing about exceptions; the router's except clauses are
\* written for it).
ClientRaises == "raises"

\* The content of a response is a text, written as the sequence of its parts.
\* LocalCLIClient.generate, providers/local_client.py:8-27: it returns a
\* response on every path; the two except clauses turn an error into a
\* response whose content starts with "Error: " or "Unexpected error: ".
LocalGenerate(run) ==
    IF run = "answer" THEN Returned(<<"answer">>)
    ELSE IF run = "cli_error_on_stdout" THEN Returned(<<"CLI Error:", " quota">>)
    ELSE IF run = "exit_nonzero" THEN Returned(<<"Error: ", "stderr">>)
    ELSE IF run = "exit_nonzero_cli_error"
    THEN Returned(<<"Error: ", "CLI Error:", " quota">>)
    ELSE IF run = "not_installed"
    THEN Returned(<<"Unexpected error: ", "No such file or directory">>)
    ELSE Raised("RuntimeError")

\* ProviderSDKClient.generate, providers/remote_client.py:18-45: the text of
\* the candidates, or, from the except clause, a response whose content
\* starts with "Error: ".
ProviderGenerate(run) ==
    IF run = "answer" THEN Returned(<<"provider answer">>)
    ELSE IF run = "sdk_error" THEN Returned(<<"Error: ", "quota exceeded">>)
    ELSE Raised("ConnectionError")

\* line 33: "CLI Error:" in response.content.
HasCLIError(content) == \E i \in 1..Len(content) : content[i] = "CLI Error:"

\* lines 28-38: whether the local route ends in the except clause: generate
\* raised, or its response's content holds "CLI Error:".
LocalFailed(outcome) ==
    \/ outcome.kind = "raise"
    \/ HasCLIError(outcome.val)

\* line 44: the prompt the provider gets in the fallback.
FallbackPrompt == "[Local Fallback] clean_prompt"
CleanPrompt == "clean_prompt"

VARIABLES
    q_pc,       \* idle | local (in local_client.generate) | provider (in
                \* provider_client.generate as the preferred route) |
                \* fallback (in provider_client.generate after the local
                \* route failed) | done
    q_prompt,   \* the prompt of the call
    q_route,    \* the client determine_route chose: local | provider
    q_local,    \* what the local client's run did, "none" when not invoked
                \* (observer)
    q_provider, \* what the provider's run did, "none" when not invoked
                \* (observer)
    q_locals,   \* invocations of local_client.generate in this call
    q_providers,\* invocations of provider_client.generate in this call
    q_sent,     \* the prompt the provider was given, "none" when not invoked
    q_result,   \* what generate_with_fallback returned or raised
    q_calls     \* generate_with_fallback calls so far (observer)

routerVars == <<q_pc, q_prompt, q_route, q_local, q_provider, q_locals,
                q_providers, q_sent, q_result, q_calls>>

\* --------------------------------------------------------- GameRulesServer
\* Tool calls followed at most.
MaxToolCalls == 5
\* The session ids uuid4 hands out, and an id no start_game returned.
SessionIds == {"session-1", "session-2"}
UnknownSession == "session-0"
\* The starter puzzles (game_rules_server.py:114-129), and an id of none.
PuzzleIds == {"turtle_soup", "elevator_man"}
UnknownPuzzle == "no_such_puzzle"

\* A text is written as the sequence of its words.  The secret solution of
\* the session's puzzle, lowered and stripped, and the guesses tried: the
\* secret, a part of it, the empty text, and other texts.
Secret == <<"too", "short">>
Guesses == {<<"too", "short">>, <<"short">>, <<>>, <<"tall">>,
            <<"short", "too">>}
\* `a in b` on texts.
IsInfix(a, b) ==
    \E i \in 0..(Len(b) - Len(a)) : \A j \in 1..Len(a) : b[i + j] = a[j]
\* line 262: is_correct.
IsCorrect(user_guess) == user_guess = Secret \/ IsInfix(user_guess, Secret)

\* A row of game_sessions (GameSession, lines 18-25); NoSession where the
\* table has no row for the id.
NoSession == [status |-> "none", questions_asked |-> 0, guesses_made |-> 0]
\* line 196: GameSession(session_id, puzzle_id, start_time) with its defaults.
NewSession == [status |-> "active", questions_asked |-> 0, guesses_made |-> 0]

\* A variant that refuses only a session that does not exist.
RefusalOnlyWhenMissing(game_session) ==
    IF game_session = NoSession THEN "not found" ELSE "none"
\* lines 214-218 and 246-250: the error evaluate_question and check_guess
\* answer with before changing anything, "none" when they go on.  The
\* puzzle of a stored session is always found (220-222, 252-254): start_game
\* stores a session only for a puzzle that exists and puzzles are never
\* deleted.
Refusal(game_session) ==
    IF game_session = NoSession THEN "not found"
    ELSE IF game_session.status # "active" THEN "is not active"
    ELSE "none"

\* lines 224-225: the row evaluate_question writes.
AfterQuestion(game_session) ==
    [game_session EXCEPT !.questions_asked = @ + 1]
\* lines 256-266: the row check_guess leaves: the counter is written first,
\* and for a correct guess the status in a second update.
AfterGuess(game_session, user_guess) ==
    [game_session EXCEPT !.guesses_made = @ + 1,
                    !.status = IF IsCorrect(user_guess) THEN "solved" ELSE @]

VARIABLES
    v_sessions, \* the table game_sessions: per session id its row
    v_last,     \* the last tool call: tool, session id, success of the
                \* result, solved flag of its details (observer)
    v_calls     \* tool calls so far (observer)

gameVars == <<v_sessions, v_last, v_calls>>

moreVars == <<buildVars, routerVars, gameVars>>

otherVars == <<retryVars, lifeVars, getVars, clientVars, moreVars>>

vars == <<now, cbVars, mgrVars, otherVars>>

NoEvent == [kind |-> "none", caller |-> 0, elapsed |-> 0, from |-> "CLOSED"]

InitCB ==
    /\ \E n \in 1..MaxThreshold, r \in 1..MaxResetTimeout : cb = NewBreaker(n, r)
    /\ pc = [c \in Callers |-> "idle"]
    /\ received = [c \in Callers |-> None]
    /\ op_outcome = [c \in Callers |-> None]
    /\ admitted_in = [c \in Callers |-> "none"]
    /\ attempts = 0
    /\ op_calls = 0
    /\ consec = 0
    /\ max_consec = 0
    /\ total_failed = 0
    /\ ref_state = "CLOSED"
    /\ last_event = NoEvent

\* The clock advances; nothing else happens (there is no background timer).
Tick ==
    /\ now < MaxTime
    /\ now' = now + 1
    /\ UNCHANGED <<cbVars, mgrVars, otherVars>>

\* Reference transition rules (design section 4.2), kept beside the code's
\* state so the two can be compared.
RefGate(s, elapsed, timeout) ==
    IF s = "OPEN" /\ elapsed > timeout THEN "HALF_OPEN" ELSE s
RefSuccess(s) == IF s = "HALF_OPEN" THEN "CLOSED" ELSE s
RefFailure(s, count, threshold) ==
    IF s = "HALF_OPEN" THEN "OPEN"
    ELSE IF s = "CLOSED" /\ count >= threshold THEN "OPEN"
    ELSE s

\* A caller enters CircuitBreaker.__call__: lines 60-68 run without
\* suspension; an admitted call then starts func (line 72).
Call(c) ==
    /\ pc[c] = "idle"
    /\ attempts < MaxCalls
    /\ attempts' = attempts + 1
    /\ cb' = GateBreaker(cb, now)
    /\ ref_state' = RefGate(ref_state, now - cb.last_failure_time, cb.reset_timeout)
    /\ IF GateAdmits(cb, now)
       THEN /\ pc' = [pc EXCEPT ![c] = "running"]
            /\ admitted_in' = [admitted_in EXCEPT ![c] = cb'.state]
            /\ op_calls' = op_calls + 1
            /\ received' = [received EXCEPT ![c] = None]
            /\ op_outcome' = [op_outcome EXCEPT ![c] = None]
            /\ last_event' = [kind |-> "admit", caller |-> c,
                              elapsed |-> now - cb.last_failure_time,
                              from |-> cb.state]
       ELSE /\ received' = [received EXCEPT ![c] = CallRejected]
            /\ op_outcome' = [op_outcome EXCEPT ![c] = None]
            /\ last_event' = [kind |-> "reject", caller |-> c,
                              elapsed |-> now - cb.last_failure_time,
                              from |-> cb.state]
            /\ UNCHANGED <<pc, admitted_in, op_calls>>
    /\ UNCHANGED <<now, consec, max_consec, total_failed, mgrVars, otherVars>>

\* func returns v: lines 72-74.
OpReturns(c, v) ==
    /\ pc[c] = "running"
    /\ cb' = RecordSuccess(cb)
    /\ ref_state' = RefSuccess(ref_state)
    /\ pc' = [pc EXCEPT ![c] = "idle"]
    /\ op_outcome' = [op_outcome EXCEPT ![c] = Returned(v)]
    /\ received' = [received EXCEPT ![c] = CallReturn(v)]
    /\ consec' = 0
    /\ last_event' = [kind |-> "success", caller |-> c,
                      elapsed |-> 0, from |-> cb.state]
    /\ UNCHANGED <<now, admitted_in, attempts, op_calls, max_consec, total_failed,
                   mgrVars, otherVars>>

\* func raises e: lines 75-77.
OpRaises(c, e) ==
    /\ pc[c] = "running"
    /\ cb' = RecordFailure(cb, now)
    /\ ref_state' = RefFailure(ref_state, consec + 1, cb.failure_threshold)
    /\ pc' = [pc EXCEPT ![c] = "idle"]
    /\ op_outcome' = [op_outcome EXCEPT ![c] = Raised(e)]
    /\ received' = [received EXCEPT ![c] = CallRaise(e)]
    /\ consec' = consec + 1
    /\ max_consec' = IF consec + 1 > max_consec THEN consec + 1 ELSE max_consec
    /\ total_failed' = total_failed + 1
    /\ last_event' = [kind |-> "failure", caller |-> c,
                      elapsed |-> 0, from |-> cb.state]
    /\ UNCHANGED <<now, admitted_in, attempts, op_calls, mgrVars, otherVars>>

NextCB ==
    \/ Tick
    \/ \E c \in Callers : Call(c)
    \/ \E c \in Callers, v \in OpValues : OpReturns(c, v)
    \/ \E c \in Callers, e \in OpErrors : OpRaises(c, e)

\* ------------------------------------------- MultiClientManager: actions
LocalServers == {s \in Servers : ServerType(s) = "local"}
NoUnits == [s \in Servers |-> "none"]
Done(c, target, result, how) ==
    [caller |-> c, target |-> target, result |-> result, how |-> how]
NothingDone == Done(0, NoServer, None, "none")

\* A manager in use: _clients and _circuit_breakers hold one client and one
\* breaker per server, as the fields are declared (lines 46-49) and as
\* _initialize_clients is written to fill them (63, 77, 83).  What the
\* constructor itself stores for a given configuration is followed by
\* InitBuild / InitializeClients.
InitMgr ==
    /\ clients = Servers
    /\ default_server \in {NoServer, "local_dev_server"}
    /\ session \in [LocalServers -> BOOLEAN]
    /\ \E tuned \in BOOLEAN :
          cbs = [s \in Servers |->
                    IF tuned
                    THEN NewBreaker(TunedFailureThreshold, TunedResetTimeout)
                    ELSE NewBreaker(DefaultFailureThreshold, DefaultResetTimeout)]
    /\ m_pc = [c \in Callers |-> "idle"]
    /\ m_target = [c \in Callers |-> NoServer]
    /\ m_attempt = [c \in Callers |-> 0]
    /\ m_units = [c \in Callers |-> NoUnits]
    /\ m_done = NothingDone
    /\ m_calls = 0
    /\ m_consec = [s \in Servers |-> 0]

\* The manager does not exist (specification Spec drives a bare breaker).
NoMgr ==
    /\ clients = {}
    /\ default_server = NoServer
    /\ session = [s \in LocalServers |-> FALSE]
    /\ cbs = [s \in Servers |->
                 NewBreaker(DefaultFailureThreshold, DefaultResetTimeout)]
    /\ m_pc = [c \in Callers |-> "idle"]
    /\ m_target = [c \in Callers |-> NoServer]
    /\ m_attempt = [c \in Callers |-> 0]
    /\ m_units = [c \in Callers |-> NoUnits]
    /\ m_done = NothingDone
    /\ m_calls = 0
    /\ m_consec = [s \in Servers |-> 0]

\* A manager operation on server s failed / succeeded (observer).
NoteFailed(s) == m_consec' = [m_consec EXCEPT ![s] = @ + 1]
NoteSucceeded(s) == m_consec' = [m_consec EXCEPT ![s] = 0]

\* The clock advances while the manager is in use.
TickMgr ==
    /\ now < MaxMgrTime
    /\ now' = now + 1
    /\ m_done' = NothingDone
    /\ UNCHANGED <<cbVars, otherVars, clients, default_server, session, cbs, m_pc, m_target,
                   m_attempt, m_units, m_calls, m_consec>>

\* call_tool(name, arguments, server_name) up to its first suspension:
\* target resolution (171-180), then the breaker's gate (resilience 60-68);
\* a rejected call goes through the except clause of lines 207-209.
CallTool(c, server_name) ==
    /\ m_pc[c] = "idle"
    /\ m_calls < MaxMgrCalls
    /\ m_calls' = m_calls + 1
    /\ LET target == ResolveTarget(server_name, default_server)
       IN  IF target = NoServer
           THEN /\ m_done' = Done(c, target, Raised(NoTargetError), "no_target")
                /\ UNCHANGED <<cbs, m_pc, m_target, m_attempt>>
           ELSE IF target \notin clients
           THEN /\ m_done' = Done(c, target, Raised(NoClientError), "no_client")
                /\ UNCHANGED <<cbs, m_pc, m_target, m_attempt>>
           ELSE IF GateAdmits(cbs[target], now)
                THEN /\ cbs' = [cbs EXCEPT ![target] = GateBreaker(@, now)]
                     /\ m_pc' = [m_pc EXCEPT ![c] = "calling"]
                     /\ m_target' = [m_target EXCEPT ![c] = target]
                     /\ m_attempt' = [m_attempt EXCEPT ![c] = 0]
                     /\ m_done' = NothingDone
                ELSE /\ cbs' = [cbs EXCEPT ![target] =
                                   HandlerRecordsFailure(GateBreaker(@, now), now,
                                                         "CircuitBreakerOpenError")]
                     /\ m_done' = Done(c, target,
                                       CallToolHandler("CircuitBreakerOpenError"),
                                       "breaker_open")
                     /\ UNCHANGED <<m_pc, m_target, m_attempt>>
    /\ UNCHANGED <<now, cbVars, otherVars, clients, default_server, session, m_units,
                   m_consec>>

\* client.call_tool returns r within the timeout: __call__ records the
\* success (resilience 72-74) and call_tool returns r (line 205).
ToolReturns(c, r) ==
    /\ m_pc[c] = "calling"
    /\ ClientMayReturn(m_target[c], session)
    /\ cbs' = [cbs EXCEPT ![m_target[c]] = RecordSuccess(@)]
    /\ m_pc' = [m_pc EXCEPT ![c] = "idle"]
    /\ m_target' = [m_target EXCEPT ![c] = NoServer]
    /\ m_attempt' = [m_attempt EXCEPT ![c] = 0]
    /\ m_done' = Done(c, m_target[c], Returned(r), "ok")
    /\ NoteSucceeded(m_target[c])
    /\ UNCHANGED <<now, cbVars, otherVars, clients, default_server, session, m_units, m_calls>>

\* client.call_tool raises e, or asyncio.wait_for raises TimeoutError
\* (line 186).  A retryable failure of a remote call before the last attempt
\* goes to sleep inside retry_with_backoff; any other failure leaves cb(...)
\* as an exception and reaches an except clause of call_tool.
ToolRaises(c, e) ==
    /\ m_pc[c] = "calling"
    /\ e \in ClientMayRaise(m_target[c], session)
    /\ IF RetryContinues(m_target[c], m_attempt[c], e)
       THEN /\ m_pc' = [m_pc EXCEPT ![c] = "sleeping"]
            /\ m_done' = NothingDone
            /\ UNCHANGED <<cbs, m_target, m_attempt, m_consec>>
       ELSE /\ cbs' = [cbs EXCEPT ![m_target[c]] = BreakerAfterFailedCall(@, now, e)]
            /\ m_pc' = [m_pc EXCEPT ![c] = "idle"]
            /\ m_target' = [m_target EXCEPT ![c] = NoServer]
            /\ m_attempt' = [m_attempt EXCEPT ![c] = 0]
            /\ m_done' = Done(c, m_target[c], CallToolHandler(e),
                              IF e = "TimeoutError" THEN "timeout" ELSE "error")
            /\ NoteFailed(m_target[c])
    /\ UNCHANGED <<now, cbVars, otherVars, clients, default_server, session, m_units, m_calls>>

\* retry_with_backoff: asyncio.sleep(sleep_time) ends and the loop calls
\* _perform_call again (lines 124, 114-116).
RetryWakes(c) ==
    /\ m_pc[c] = "sleeping"
    /\ m_pc' = [m_pc EXCEPT ![c] = "calling"]
    /\ m_attempt' = [m_attempt EXCEPT ![c] = @ + 1]
    /\ m_done' = NothingDone
    /\ UNCHANGED <<now, cbVars, otherVars, clients, default_server, session, cbs, m_target,
                   m_units, m_calls, m_consec>>

\* list_tools, lines 157-164: what it gives its caller once gather has every
\* unit's result: the tools of the units that returned a list, here the set
\* of their servers.
ListOutcome(units) == Returned({s \in Servers : units[s] = "listed"})

\* list_tools, lines 121-157: the loop over _clients builds one unit of work
\* per client that is neither skipped for an OPEN breaker (cb.state, read
\* without a transition check) nor for a missing session; gather then runs
\* the units.
ListUnit(s) ==
    IF s \notin clients THEN "none"
    ELSE IF cbs[s].state = "OPEN" THEN "skipped"
    ELSE IF NotConnected(s, session) THEN "skipped"
    ELSE "pending"

ListTools(c) ==
    /\ m_pc[c] = "idle"
    /\ m_calls < MaxMgrCalls
    /\ m_calls' = m_calls + 1
    /\ m_pc' = [m_pc EXCEPT ![c] = "listing"]
    /\ m_units' = [m_units EXCEPT ![c] = [s \in Servers |-> ListUnit(s)]]
    /\ m_done' = NothingDone
    /\ UNCHANGED <<now, cbVars, otherVars, clients, default_server, session, cbs, m_target,
                   m_attempt, m_consec>>

\* A unit starts: cb_instance(lambda: wait_for(cl.list_tools(), ...)) runs
\* the breaker's gate (line 139).  A rejected unit returns the
\* CircuitBreakerOpenError (143-145).
UnitStarts(c, s) ==
    /\ m_pc[c] = "listing"
    /\ m_units[c][s] = "pending"
    /\ cbs' = [cbs EXCEPT ![s] = GateBreaker(@, now)]
    /\ m_units' = [m_units EXCEPT ![c][s] =
                      IF GateAdmits(cbs[s], now) THEN "running" ELSE "rejected"]
    /\ m_done' = NothingDone
    /\ UNCHANGED <<now, cbVars, otherVars, clients, default_server, session, m_pc, m_target,
                   m_attempt, m_calls, m_consec>>

\* The unit's list_tools returns its tools (line 142).
UnitReturns(c, s) ==
    /\ m_pc[c] = "listing"
    /\ m_units[c][s] = "running"
    /\ ClientMayReturn(s, session)
    /\ cbs' = [cbs EXCEPT ![s] = RecordSuccess(@)]
    /\ m_units' = [m_units EXCEPT ![c][s] = "listed"]
    /\ m_done' = NothingDone
    /\ NoteSucceeded(s)
    /\ UNCHANGED <<now, cbVars, otherVars, clients, default_server, session, m_pc, m_target,
                   m_attempt, m_calls>>

\* The unit's list_tools raises e or times out: __call__ records the failure
\* and the unit's except clause records again (lines 146-153).
UnitRaises(c, s, e) ==
    /\ m_pc[c] = "listing"
    /\ m_units[c][s] = "running"
    /\ e \in ClientMayRaise(s, session)
    /\ cbs' = [cbs EXCEPT ![s] = BreakerAfterFailedCall(@, now, e)]
    /\ m_units' = [m_units EXCEPT ![c][s] = "failed"]
    /\ m_done' = NothingDone
    /\ NoteFailed(s)
    /\ UNCHANGED <<now, cbVars, otherVars, clients, default_server, session, m_pc, m_target,
                   m_attempt, m_calls>>

\* gather has every unit's result and list_tools returns (lines 157-164).
ListReturns(c) ==
    /\ m_pc[c] = "listing"
    /\ \A s \in Servers : m_units[c][s] \notin {"pending", "running"}
    /\ m_pc' = [m_pc EXCEPT ![c] = "idle"]
    /\ m_units' = [m_units EXCEPT ![c] = NoUnits]
    /\ m_done' = Done(c, NoServer, ListOutcome(m_units[c]), "listed")
    /\ UNCHANGED <<now, cbVars, otherVars, clients, default_server, session, cbs, m_target,
                   m_attempt, m_calls, m_consec>>

\* MultiClientManager.__aexit__, lines 101-114, from the moment
\* _exit_stack.aclose() is over: every connect() context has been left, so
\* no StdioMCPClient has a session; when a context raised, aclose re-raises
\* and the rest is skipped.  Otherwise (PlaceholderRemoteClient has no
\* disconnect, 105-108) record_success is called on every breaker (111-112)
\* and _clients is emptied (114).  The exit can come while calls of other
\* tasks are in flight.
ManagerExits(closes) ==
    /\ clients # {}
    /\ session' = [s \in LocalServers |-> FALSE]
    /\ IF closes = "ok"
       THEN /\ cbs' = [s \in Servers |-> RecordSuccess(cbs[s])]
            /\ clients' = {}
            /\ m_done' = Done(0, NoServer, None, "exited")
       ELSE /\ m_done' = Done(0, NoServer, None, "exit_raised")
            /\ UNCHANGED <<cbs, clients>>
    /\ UNCHANGED <<now, cbVars, otherVars, default_server, m_pc, m_target,
                   m_attempt, m_units, m_calls, m_consec>>

NextMgr ==
    \/ TickMgr
    \/ \E c \in Callers, n \in Servers \cup {NoServer, UnknownServer} : CallTool(c, n)
    \/ \E c \in Callers, r \in ClientResults : ToolReturns(c, r)
    \/ \E c \in Callers, e \in ClientErrors : ToolRaises(c, e)
    \/ \E c \in Callers : RetryWakes(c)
    \/ \E c \in Callers : ListTools(c)
    \/ \E c \in Callers, s \in Servers : UnitStarts(c, s)
    \/ \E c \in Callers, s \in Servers : UnitReturns(c, s)
    \/ \E c \in Callers, s \in Servers, e \in ClientErrors : UnitRaises(c, s, e)
    \/ \E c \in Callers : ListReturns(c)

\* The calls of a manager's tasks, and the end of the manager's scope.
NextExit ==
    \/ TickMgr
    \/ \E c \in Callers, n \in Servers \cup {NoServer, UnknownServer} : CallTool(c, n)
    \/ \E c \in Callers, r \in ClientResults : ToolReturns(c, r)
    \/ \E c \in Callers, e \in ClientErrors : ToolRaises(c, e)
    \/ \E c \in Callers : RetryWakes(c)
    \/ \E closes \in {"ok", "raised"} : ManagerExits(closes)

\* ----------------------------------------------- retry_with_backoff: actions
\* retry_with_backoff(func, max_retries) is entered, either on its own or by
\* call_tool (client_manager.py:190-201); a local call_tool awaits
\* _perform_call without the loop.
InitRetry ==
    /\ r_use \in {"bare", "local", "remote"}
    /\ r_max \in IF r_use = "bare" THEN 0..MaxRetries
                ELSE IF r_use = "remote" THEN {ToolCallMaxRetries}
                ELSE {0}
    /\ r_cfg \in IF r_use = "bare" THEN {<<>>} ELSE ConfiguredTimeouts
    /\ r_pc = "start"
    /\ r_i = 0
    /\ r_last = None
    /\ r_result = None
    /\ r_invoked = 0
    /\ r_errors = <<>>
    /\ r_sleeps = <<>>
    /\ r_hung = 0
    /\ r_elapsed = 0

\* No retry_with_backoff is running.
NoRetry ==
    /\ r_use = "bare"
    /\ r_max = 0
    /\ r_cfg = <<>>
    /\ r_pc = "done"
    /\ r_i = 0
    /\ r_last = None
    /\ r_result = None
    /\ r_invoked = 0
    /\ r_errors = <<>>
    /\ r_sleeps = <<>>
    /\ r_hung = 0
    /\ r_elapsed = 0

\* line 116: func() is called, at loop entry or after a sleep (line 124);
\* the sleep just ended took its sleep_time.
FuncStarts ==
    /\ r_pc \in {"start", "sleeping"}
    /\ r_pc' = "calling"
    /\ r_i' = IF r_pc = "sleeping" THEN r_i + 1 ELSE r_i
    /\ r_elapsed' = IF r_pc = "sleeping"
                    THEN r_elapsed + r_sleeps[Len(r_sleeps)]
                    ELSE r_elapsed
    /\ r_invoked' = r_invoked + 1
    /\ UNCHANGED <<r_use, r_max, r_cfg, r_last, r_result, r_errors, r_sleeps,
                   r_hung>>
    /\ UNCHANGED <<now, cbVars, mgrVars, lifeVars, getVars, clientVars, moreVars>>

\* What the caller gets when the call ends with error e: the error itself
\* from retry_with_backoff (lines 129, 132), call_tool's result from its
\* except clauses (client_manager.py:210-217).
EndsWith(e) == IF r_use = "bare" THEN Raised(e) ELSE CallToolHandler(e)

\* func raised e after dt ticks (lines 117-129).
FuncFails(e, dt) ==
    LET d == IF r_use = "local" THEN "raise" ELSE RetryDecision(r_i, e, r_max)
    IN  /\ r_errors' = Append(r_errors, e)
        /\ r_elapsed' = r_elapsed + dt
        /\ r_last' = IF d = "raise" THEN r_last ELSE Raised(e)
        /\ IF d = "sleep"
           THEN /\ \E t \in SleepTimes(r_i) : r_sleeps' = Append(r_sleeps, t)
                /\ r_pc' = "sleeping"
                /\ UNCHANGED r_result
           ELSE /\ r_pc' = "done"
                /\ r_result' = IF d = "raise" THEN EndsWith(e) ELSE EndsWith(r_last'.val)
                /\ UNCHANGED r_sleeps
        /\ UNCHANGED <<r_use, r_max, r_cfg, r_i, r_invoked>>

\* What func can return: any value, or a CallToolResult when func is
\* _perform_call.
ReturnValues(use) == IF use = "bare" THEN OpValues ELSE ClientResults

\* line 116: func returns v.
FuncReturns(v) ==
    /\ r_pc = "calling"
    /\ r_pc' = "done"
    /\ r_result' = Returned(v)
    /\ UNCHANGED <<r_use, r_max, r_cfg, r_i, r_last, r_invoked, r_errors,
                   r_sleeps, r_hung, r_elapsed>>
    /\ UNCHANGED <<now, cbVars, mgrVars, lifeVars, getVars, clientVars, moreVars>>

\* func raises e at once.
FuncRaises(e) ==
    /\ r_pc = "calling"
    /\ FuncFails(e, 0)
    /\ UNCHANGED r_hung
    /\ UNCHANGED <<now, cbVars, mgrVars, lifeVars, getVars, clientVars, moreVars>>

\* func is _perform_call and the client's call never completes: wait_for
\* raises TimeoutError when its timeout is over (client_manager.py:186).
FuncHangs ==
    /\ r_pc = "calling"
    /\ r_use # "bare"
    /\ FuncFails("TimeoutError", CallTimeout(r_cfg) * TicksPerSecond)
    /\ r_hung' = r_hung + 1
    /\ UNCHANGED <<now, cbVars, mgrVars, lifeVars, getVars, clientVars, moreVars>>

NextRetry ==
    \/ FuncStarts
    \/ \E v \in ReturnValues(r_use) : FuncReturns(v)
    \/ \E e \in ClientErrors : FuncRaises(e)
    \/ FuncHangs

\* ------------------------------------------------- manager scopes: actions
NoCall == [server |-> "none", conn |-> "none", outcome |-> "none"]

\* A manager is constructed and its servers are registered; nothing is
\* connected yet (client_manager.py:51-56, manager.py:13-28).
InitLife ==
    /\ l_mgr \in {"multi", "mcp"}
    /\ l_phase = "new"
    /\ l_exit = "none"
    /\ l_conn = [s \in Registered |-> "idle"]
    /\ l_proc = [s \in Registered |-> "none"]
    /\ l_sess = [s \in Registered |-> FALSE]
    /\ l_stack = <<>>
    /\ l_init = FALSE
    /\ l_clients = Registered
    /\ l_close = [s \in Registered |-> "none"]
    /\ l_shut = "none"
    /\ l_hangs \in SUBSET Registered
    /\ l_live = [s \in Registered |-> 0]
    /\ l_inits = 0
    /\ l_regs = 0
    /\ l_call = NoCall

\* No manager scope is followed.
NoLife ==
    /\ l_mgr = "multi"
    /\ l_phase = "ended"
    /\ l_exit = "none"
    /\ l_conn = [s \in Registered |-> "idle"]
    /\ l_proc = [s \in Registered |-> "none"]
    /\ l_sess = [s \in Registered |-> FALSE]
    /\ l_stack = <<>>
    /\ l_init = FALSE
    /\ l_clients = {}
    /\ l_close = [s \in Registered |-> "none"]
    /\ l_shut = "none"
    /\ l_hangs = {}
    /\ l_live = [s \in Registered |-> 0]
    /\ l_inits = 0
    /\ l_regs = 0
    /\ l_call = NoCall

AllConnected(conn) == \A s \in Registered : conn[s] = "connected"
Connecting(conn) ==
    \E s \in Registered : conn[s] \in {"connecting", "spawned", "entered"}

\* 'async with MultiClientManager(config)' calls __aenter__ (line 90).
AEnter ==
    /\ l_mgr = "multi"
    /\ l_phase = "new"
    /\ l_phase' = "starting"
    /\ UNCHANGED <<l_mgr, l_exit, l_conn, l_proc, l_sess, l_stack, l_init,
                   closeVars, connVars>>
    /\ UNCHANGED <<now, cbVars, mgrVars, retryVars, getVars, clientVars, moreVars>>

\* __aenter__'s loop, lines 92-95: the next client's connect() context is
\* entered (stdio_client.py:37-41: process started, session set) and pushed
\* on the exit stack; after the last one __aenter__ returns (line 99) and
\* the body of the scope runs.
Connects(s) ==
    /\ l_mgr = "multi"
    /\ l_phase = "starting"
    /\ Len(l_stack) < Len(RegOrder)
    /\ s = RegOrder[Len(l_stack) + 1]
    /\ l_conn' = [l_conn EXCEPT ![s] = "connected"]
    /\ l_proc' = [l_proc EXCEPT ![s] = "running"]
    /\ l_live' = [l_live EXCEPT ![s] = @ + 1]
    /\ l_sess' = [l_sess EXCEPT ![s] = TRUE]
    /\ l_stack' = Append(l_stack, s)
    /\ l_phase' = IF AllConnected(l_conn') THEN "inside" ELSE "starting"
    /\ UNCHANGED <<l_mgr, l_exit, l_init, closeVars, l_inits, l_regs, l_call>>
    /\ UNCHANGED <<now, cbVars, mgrVars, retryVars, getVars, clientVars, moreVars>>

\* The next client's connect() raises while its process is being started
\* (stdio_client.py:37, 47-51: no process to clean up, re-raise).  Nothing in
\* __aenter__ catches it (lines 92-95), so it leaves the 'async with'
\* statement, which does not call __aexit__ when __aenter__ raised.
ConnectRaises(s) ==
    /\ l_mgr = "multi"
    /\ l_phase = "starting"
    /\ Len(l_stack) < Len(RegOrder)
    /\ s = RegOrder[Len(l_stack) + 1]
    /\ l_conn' = [l_conn EXCEPT ![s] = "failed"]
    /\ l_phase' = "ended"
    /\ l_exit' = "startup_failed"
    /\ UNCHANGED <<l_mgr, l_proc, l_sess, l_stack, l_init, closeVars, connVars>>
    /\ UNCHANGED <<now, cbVars, mgrVars, retryVars, getVars, clientVars, moreVars>>

\* MCPManager.register_server, lines 20-28: a name already in the client
\* dictionary is skipped, a new name gets a new, unconnected client.
RegisterServer(name) ==
    /\ l_mgr = "mcp"
    /\ l_regs < MaxRegisterCalls
    /\ l_regs' = l_regs + 1
    /\ l_clients' = IF name \in l_clients THEN l_clients
                    ELSE l_clients \cup {name}
    /\ UNCHANGED <<l_mgr, l_phase, l_exit, l_conn, l_proc, l_sess, l_stack,
                   l_init, l_close, l_shut, l_hangs, l_live, l_inits, l_call>>
    /\ UNCHANGED <<now, cbVars, mgrVars, retryVars, getVars, clientVars, moreVars>>

\* MCPManager.initialize_all, lines 30-41: it returns at once when
\* _is_initialized is set; otherwise one connect() per client is handed to
\* asyncio.gather.  It is called at the start of the scope, and again inside
\* the scope or after an initialize_all that failed, once the connects of
\* the earlier call have ended.
InitializeAll ==
    /\ l_mgr = "mcp"
    /\ l_inits < MaxInitCalls
    /\ \/ l_phase \in {"new", "inside"}
       \/ l_phase = "ended" /\ l_exit = "startup_failed"
    /\ ~Connecting(l_conn)
    /\ l_inits' = l_inits + 1
    /\ IF l_init
       THEN UNCHANGED <<l_phase, l_conn, l_exit, l_shut>>
       ELSE /\ l_phase' = "starting"
            /\ l_conn' = [s \in Registered |->
                             IF s \in l_clients THEN "connecting" ELSE l_conn[s]]
            /\ l_exit' = "none"
            /\ l_shut' = "none"
    /\ UNCHANGED <<l_mgr, l_proc, l_sess, l_stack, l_init, l_clients, l_close,
                   l_hangs, l_live, l_regs, l_call>>
    /\ UNCHANGED <<now, cbVars, mgrVars, retryVars, getVars, clientVars, moreVars>>

\* gather re-raises the first exception of a connect() (line 41, no
\* return_exceptions); the other connects keep running.  initialize_all
\* raises with _is_initialized still False, and the shutdown that ends the
\* scope (main.py:55-60) returns at its first test (manager.py:72-74) or goes
\* on to disconnect.
StartupFails ==
    /\ l_phase' = IF l_phase = "starting"
                  THEN IF ShutdownSkips(l_init) THEN "ended" ELSE "closing"
                  ELSE l_phase
    /\ l_exit' = IF l_phase = "starting" THEN "startup_failed" ELSE l_exit
    /\ l_shut' = IF l_phase = "starting" /\ ShutdownSkips(l_init)
                 THEN "skipped" ELSE l_shut

\* LocalMCPClient.connect, client.py:23: the server process is started and
\* its context pushed on the client's exit stack, whatever the stack holds
\* already.
Spawns(s) ==
    /\ l_mgr = "mcp"
    /\ l_conn[s] = "connecting"
    /\ l_conn' = [l_conn EXCEPT ![s] = "spawned"]
    /\ l_proc' = [l_proc EXCEPT ![s] = "running"]
    /\ l_live' = [l_live EXCEPT ![s] = @ + 1]
    /\ UNCHANGED <<l_mgr, l_phase, l_exit, l_sess, l_stack, l_init, closeVars,
                   l_inits, l_regs, l_call>>
    /\ UNCHANGED <<now, cbVars, mgrVars, retryVars, getVars, clientVars, moreVars>>

\* client.py:23 raises: no new process.
SpawnFails(s) ==
    /\ l_mgr = "mcp"
    /\ l_conn[s] = "connecting"
    /\ l_conn' = [l_conn EXCEPT ![s] = "failed"]
    /\ StartupFails
    /\ UNCHANGED <<l_mgr, l_proc, l_sess, l_stack, l_init, l_clients, l_close,
                   l_hangs, connVars>>
    /\ UNCHANGED <<now, cbVars, mgrVars, retryVars, getVars, clientVars, moreVars>>

\* client.py:26-28: the ClientSession is entered and assigned to
\* self.session.
SessionEnters(s) ==
    /\ l_mgr = "mcp"
    /\ l_conn[s] = "spawned"
    /\ l_conn' = [l_conn EXCEPT ![s] = "entered"]
    /\ l_sess' = [l_sess EXCEPT ![s] = TRUE]
    /\ UNCHANGED <<l_mgr, l_phase, l_exit, l_proc, l_stack, l_init, closeVars,
                   connVars>>
    /\ UNCHANGED <<now, cbVars, mgrVars, retryVars, getVars, clientVars, moreVars>>

\* client.py:31: session.initialize() returns, and with it connect(); when
\* every connect has returned, gather returns and initialize_all sets
\* _is_initialized (manager.py:41-42).
Handshakes(s) ==
    /\ l_mgr = "mcp"
    /\ l_conn[s] = "entered"
    /\ l_conn' = [l_conn EXCEPT ![s] = "connected"]
    /\ IF l_phase = "starting" /\ AllConnected(l_conn')
       THEN l_phase' = "inside" /\ l_init' = TRUE
       ELSE UNCHANGED <<l_phase, l_init>>
    /\ UNCHANGED <<l_mgr, l_exit, l_proc, l_sess, l_stack, closeVars, connVars>>
    /\ UNCHANGED <<now, cbVars, mgrVars, retryVars, getVars, clientVars, moreVars>>

\* client.py:26-31 raises: in entering the session (self.session not
\* assigned by this connect) or in session.initialize() (already assigned).
\* The process stays with the client's exit stack.
HandshakeFails(s, assigned) ==
    /\ l_mgr = "mcp"
    /\ l_conn[s] = IF assigned THEN "entered" ELSE "spawned"
    /\ l_conn' = [l_conn EXCEPT ![s] = "failed"]
    /\ StartupFails
    /\ UNCHANGED <<l_mgr, l_proc, l_sess, l_stack, l_init, l_clients, l_close,
                   l_hangs, connVars>>
    /\ UNCHANGED <<now, cbVars, mgrVars, retryVars, getVars, clientVars, moreVars>>

\* list_tools or call_tool is called on the client of server s
\* (stdio_client.py:54-73, client.py:34-46): without a session it raises
\* RuntimeError at once, with one the request is sent on the session.
ClientCall(s) ==
    /\ s \in l_clients
    /\ l_call' = [server |-> s, conn |-> l_conn[s],
                  outcome |-> IF l_sess[s] THEN "sent" ELSE "not_connected"]
    /\ UNCHANGED <<l_mgr, l_phase, l_exit, l_conn, l_proc, l_sess, l_stack,
                   l_init, closeVars, l_live, l_inits, l_regs>>
    /\ UNCHANGED <<now, cbVars, mgrVars, retryVars, getVars, clientVars, moreVars>>

\* The body of the scope ends, by falling off its end or by an error.  For
\* MultiClientManager the 'async with' statement calls __aexit__ (line 101),
\* which closes the exit stack; for MCPManager the owner calls shutdown
\* (main.py:55-60), which hands one disconnect() per client to gather
\* (manager.py:77-78).
BodyEnds(how) ==
    /\ l_phase = "inside"
    /\ l_exit' = how
    /\ l_phase' = IF l_mgr = "mcp" /\ ShutdownSkips(l_init)
                  THEN "ended" ELSE "closing"
    /\ l_close' = IF l_mgr = "mcp" /\ ShutdownSkips(l_init) THEN l_close
                  ELSE [s \in Registered |->
                           IF s \in l_clients THEN "pending" ELSE l_close[s]]
    /\ UNCHANGED <<l_mgr, l_conn, l_proc, l_sess, l_stack, l_init, l_clients,
                   l_shut, l_hangs, connVars>>
    /\ UNCHANGED <<now, cbVars, mgrVars, retryVars, getVars, clientVars, moreVars>>

\* __aexit__, line 103: exit_stack.aclose() leaves the connect() contexts
\* last-in first-out, each after the one before it has been left.  Leaving
\* one ends the process and clears the session (stdio_client.py:37-45); when
\* that raises, connect() cleans up with disconnect() and re-raises (47-51),
\* and the exit stack goes on with the contexts left.  A close that never
\* completes does not get here.
AExitCloses(outcome) ==
    /\ l_mgr = "multi"
    /\ l_phase = "closing"
    /\ l_stack # <<>>
    /\ LET s == l_stack[Len(l_stack)]
       IN  /\ s \notin l_hangs
           /\ l_proc' = [l_proc EXCEPT ![s] = "exited"]
           /\ l_live' = [l_live EXCEPT ![s] = 0]
           /\ l_sess' = [l_sess EXCEPT ![s] = FALSE]
           /\ l_close' = [l_close EXCEPT ![s] = outcome]
    /\ l_stack' = SubSeq(l_stack, 1, Len(l_stack) - 1)
    /\ UNCHANGED <<l_mgr, l_phase, l_exit, l_conn, l_init, l_clients, l_shut,
                   l_hangs, l_inits, l_regs, l_call>>
    /\ UNCHANGED <<now, cbVars, mgrVars, retryVars, getVars, clientVars, moreVars>>

\* __aexit__, lines 103-114: aclose() has left every context.  When none of
\* them raised, the rest of __aexit__ runs, _clients.clear() included, and
\* it returns; otherwise aclose() re-raises and __aexit__ ends there.
AExitReturns ==
    /\ l_mgr = "multi"
    /\ l_phase = "closing"
    /\ l_stack = <<>>
    /\ l_phase' = "ended"
    /\ IF \E s \in Registered : l_close[s] = "raised"
       THEN l_shut' = "raised" /\ UNCHANGED l_clients
       ELSE l_shut' = "returned" /\ l_clients' = {}
    /\ UNCHANGED <<l_mgr, l_exit, l_conn, l_proc, l_sess, l_stack, l_init,
                   l_close, l_hangs, connVars>>
    /\ UNCHANGED <<now, cbVars, mgrVars, retryVars, getVars, clientVars, moreVars>>

\* shutdown, lines 77-78: a client's disconnect() closes its exit stack
\* (client.py:48-50), which ends every process on it, and returns or
\* raises; self.session stays as it is.  The disconnects run concurrently,
\* also after gather has raised.
Disconnects(s, outcome) ==
    /\ l_mgr = "mcp"
    /\ l_close[s] = "pending"
    /\ s \notin l_hangs
    /\ l_close' = [l_close EXCEPT ![s] = outcome]
    /\ l_proc' = [l_proc EXCEPT ![s] = IF @ = "running" THEN "exited" ELSE @]
    /\ l_live' = [l_live EXCEPT ![s] = 0]
    /\ UNCHANGED <<l_mgr, l_phase, l_exit, l_conn, l_sess, l_stack, l_init,
                   l_clients, l_shut, l_hangs, l_inits, l_regs, l_call>>
    /\ UNCHANGED <<now, cbVars, mgrVars, retryVars, getVars, clientVars, moreVars>>

\* shutdown, lines 78-81: every disconnect has returned; gather returns and
\* shutdown clears _is_initialized.
ShutdownReturns ==
    /\ l_mgr = "mcp"
    /\ l_phase = "closing"
    /\ \A s \in l_clients : l_close[s] = "ok"
    /\ l_phase' = "ended"
    /\ l_init' = FALSE
    /\ l_shut' = "returned"
    /\ UNCHANGED <<l_mgr, l_exit, l_conn, l_proc, l_sess, l_stack, l_clients,
                   l_close, l_hangs, connVars>>
    /\ UNCHANGED <<now, cbVars, mgrVars, retryVars, getVars, clientVars, moreVars>>

\* shutdown, line 78: gather (no return_exceptions) re-raises the first
\* exception of a disconnect() without waiting for the others; lines 79-80
\* do not run.
ShutdownRaises ==
    /\ l_mgr = "mcp"
    /\ l_phase = "closing"
    /\ \E s \in l_clients : l_close[s] = "raised"
    /\ l_phase' = "ended"
    /\ l_shut' = "raised"
    /\ UNCHANGED <<l_mgr, l_exit, l_conn, l_proc, l_sess, l_stack, l_init,
                   l_clients, l_close, l_hangs, connVars>>
    /\ UNCHANGED <<now, cbVars, mgrVars, retryVars, getVars, clientVars, moreVars>>

CloseOutcomes == {"ok", "raised"}

NextScope ==
    \/ AEnter
    \/ \E s \in Registered : Connects(s)
    \/ \E s \in Registered : ConnectRaises(s)
    \/ \E name \in Registered : RegisterServer(name)
    \/ InitializeAll
    \/ \E s \in Registered : Spawns(s)
    \/ \E s \in Registered : SpawnFails(s)
    \/ \E s \in Registered : SessionEnters(s)
    \/ \E s \in Registered : Handshakes(s)
    \/ \E s \in Registered, assigned \in BOOLEAN : HandshakeFails(s, assigned)
    \/ \E s \in Registered : ClientCall(s)
    \/ \E how \in {"normal", "error"} : BodyEnds(how)
    \/ \E outcome \in CloseOutcomes : AExitCloses(outcome)
    \/ AExitReturns
    \/ \E s \in Registered, outcome \in CloseOutcomes : Disconnects(s, outcome)
    \/ ShutdownReturns
    \/ ShutdownRaises

\* ------------------------------------------ MCPManager.get_all_tools: actions
NoTools == [s \in Registered |-> "absent"]

InitGet ==
    /\ g_pc = "idle"
    /\ g_at = 1
    /\ g_tools = NoTools
    /\ g_result = None
    /\ g_hung \in SUBSET Registered
    /\ g_calls = 0

\* No get_all_tools is followed.
NoGet ==
    /\ g_pc = "idle"
    /\ g_at = 1
    /\ g_tools = NoTools
    /\ g_result = None
    /\ g_hung = {}
    /\ g_calls = 0

\* get_all_tools is called (manager.py:45-51); it asks the clients one after
\* the other, in registration order.
GetAllTools ==
    /\ l_mgr = "mcp"
    /\ g_pc = "idle"
    /\ g_calls < MaxGetCalls
    /\ g_calls' = g_calls + 1
    /\ g_pc' = "fetching"
    /\ g_at' = 1
    /\ g_tools' = NoTools
    /\ g_result' = None
    /\ UNCHANGED g_hung
    /\ UNCHANGED <<now, cbVars, mgrVars, retryVars, lifeVars, clientVars, moreVars>>

\* The client asked has answered with outcome: its entry is stored (lines
\* 52-58) and the loop goes to the next client, or returns all_tools (59).
GetStores(outcome) ==
    LET s == RegOrder[g_at]
        tools == [g_tools EXCEPT ![s] = ToolsEntry(outcome)]
    IN  IF g_at < Len(RegOrder)
        THEN /\ g_tools' = tools
             /\ g_at' = g_at + 1
             /\ UNCHANGED <<g_pc, g_result>>
        ELSE /\ g_tools' = NoTools
             /\ g_at' = 1
             /\ g_pc' = "idle"
             /\ g_result' = Returned(tools)

\* client.list_tools() returns the server's tools (client.py:39-40); a
\* server whose list_tools never completes does not get here.
ClientListReturns ==
    /\ g_pc = "fetching"
    /\ l_sess[RegOrder[g_at]]
    /\ RegOrder[g_at] \notin g_hung
    /\ GetStores(Returned("tools"))
    /\ UNCHANGED <<g_hung, g_calls>>
    /\ UNCHANGED <<now, cbVars, mgrVars, retryVars, lifeVars, clientVars, moreVars>>

\* client.list_tools() raises: RuntimeError at once without a session
\* (client.py:36-37), or an error of the session's call.
ClientListRaises(e) ==
    /\ g_pc = "fetching"
    /\ IF l_sess[RegOrder[g_at]]
       THEN RegOrder[g_at] \notin g_hung
       ELSE e = "RuntimeError"
    /\ GetStores(Raised(e))
    /\ UNCHANGED <<g_hung, g_calls>>
    /\ UNCHANGED <<now, cbVars, mgrVars, retryVars, lifeVars, clientVars, moreVars>>

NextGet ==
    \/ GetAllTools
    \/ ClientListReturns
    \/ \E e \in ClientErrors : ClientListRaises(e)

\* ------------------------------------------------ StdioMCPClient: actions
Ended(op, outcome) == [op |-> op, outcome |-> outcome]

\* A StdioMCPClient is constructed (stdio_client.py:19-22).
InitClient ==
    /\ k_ctx = "none"
    /\ k_session = FALSE
    /\ k_process = FALSE
    /\ k_proc = "none"
    /\ k_dis = "idle"
    /\ k_signals = <<>>
    /\ k_timed = FALSE
    /\ k_result = Ended("none", "none")
    /\ k_ops = 0
    /\ k_call = "none"

\* No StdioMCPClient is followed on its own.
NoClient ==
    /\ k_ctx = "none"
    /\ k_session = FALSE
    /\ k_process = FALSE
    /\ k_proc = "none"
    /\ k_dis = "idle"
    /\ k_signals = <<>>
    /\ k_timed = FALSE
    /\ k_result = Ended("none", "none")
    /\ k_ops = MaxClientOps
    /\ k_call = "none"

\* 'async with client.connect()' is entered, lines 24-37: with a session set
\* it raises RuntimeError, otherwise it goes on to start the process.  It is
\* called on a client with no context open, or on a connected one.
ConnectCalled ==
    /\ k_ops < MaxClientOps
    /\ k_dis = "idle"
    /\ k_ctx = "none" \/ (k_ctx = "entered" /\ k_session)
    /\ k_ops' = k_ops + 1
    /\ IF k_session
       THEN /\ k_result' = Ended("connect", "RuntimeError")
            /\ UNCHANGED k_ctx
       ELSE /\ k_ctx' = "entering"
            /\ UNCHANGED k_result
    /\ UNCHANGED <<k_session, k_process, k_proc, k_dis, k_signals, k_timed>>
    /\ UNCHANGED k_call
    /\ UNCHANGED <<now, cbVars, mgrVars, retryVars, lifeVars, getVars, moreVars>>

\* lines 37-41: stdio_client has started the process; _session and _process
\* are set and the context's body runs.
ConnectEnters ==
    /\ k_ctx = "entering"
    /\ k_ctx' = "entered"
    /\ k_session' = TRUE
    /\ k_process' = TRUE
    /\ k_proc' = "running"
    /\ k_result' = Ended("connect", "entered")
    /\ UNCHANGED <<k_dis, k_signals, k_timed, k_ops>>
    /\ UNCHANGED k_call
    /\ UNCHANGED <<now, cbVars, mgrVars, retryVars, lifeVars, getVars, moreVars>>

\* line 37 raises: nothing was started; lines 47-51 re-raise.
ConnectFails ==
    /\ k_ctx = "entering"
    /\ k_ctx' = "none"
    /\ k_result' = Ended("connect", "raised")
    /\ UNCHANGED <<k_session, k_process, k_proc, k_dis, k_signals, k_timed, k_ops>>
    /\ UNCHANGED k_call
    /\ UNCHANGED <<now, cbVars, mgrVars, retryVars, lifeVars, getVars, moreVars>>

\* The context is left, lines 37-51: leaving stdio_client ends the process;
\* then _session and _process are cleared (44-45), or, when the body or the
\* exit raised, disconnect() finds the process ended and clears _session
\* alone (49-50, 98-100) before the exception goes on.
ContextLeft(outcome) ==
    /\ k_ctx = "entered"
    /\ k_dis = "idle"
    /\ k_ctx' = "none"
    /\ k_proc' = IF k_proc = "running" THEN "exited" ELSE k_proc
    /\ k_session' = FALSE
    /\ k_process' = IF outcome = "ok" THEN FALSE ELSE k_process
    /\ k_result' = Ended("leave", outcome)
    /\ UNCHANGED <<k_dis, k_signals, k_timed, k_ops>>
    /\ UNCHANGED k_call
    /\ UNCHANGED <<now, cbVars, mgrVars, retryVars, lifeVars, getVars, moreVars>>

\* The child process ends on its own.
ProcessEnds ==
    /\ k_proc = "running"
    /\ k_dis = "idle"
    /\ k_proc' = "exited"
    /\ UNCHANGED <<k_ctx, k_session, k_process, k_dis, k_signals, k_timed,
                   k_result, k_ops>>
    /\ UNCHANGED k_call
    /\ UNCHANGED <<now, cbVars, mgrVars, retryVars, lifeVars, getVars, moreVars>>

\* list_tools or call_tool, lines 54-73: RuntimeError without a session,
\* otherwise the request is sent on the session.
ClientCalled ==
    /\ k_ops < MaxClientOps
    /\ k_call = "none"
    /\ k_ops' = k_ops + 1
    /\ k_result' = Ended("call", IF k_session THEN "sent" ELSE "not_connected")
    /\ k_call' = IF k_session THEN "pending" ELSE "none"
    /\ UNCHANGED <<k_ctx, k_session, k_process, k_proc, k_dis, k_signals, k_timed>>
    /\ UNCHANGED <<now, cbVars, mgrVars, retryVars, lifeVars, getVars, moreVars>>

\* The session answers the request in flight: the call returns the answer.
CallReturns ==
    /\ k_call = "pending"
    /\ k_session
    /\ k_proc = "running"
    /\ k_call' = "none"
    /\ k_result' = Ended("call", "returned")
    /\ UNCHANGED <<k_ctx, k_session, k_process, k_proc, k_dis, k_signals,
                   k_timed, k_ops>>
    /\ UNCHANGED <<now, cbVars, mgrVars, retryVars, lifeVars, getVars, moreVars>>

\* The request in flight fails (the session reports an error, or the process
\* is gone): the call raises.
CallRaises ==
    /\ k_call = "pending"
    /\ k_call' = "none"
    /\ k_result' = Ended("call", "raised")
    /\ UNCHANGED <<k_ctx, k_session, k_process, k_proc, k_dis, k_signals,
                   k_timed, k_ops>>
    /\ UNCHANGED <<now, cbVars, mgrVars, retryVars, lifeVars, getVars, moreVars>>

\* A variant in which the timeout also disconnects the client.
CallTimesOutAndDisconnects ==
    /\ k_call = "pending"
    /\ k_call' = "none"
    /\ k_result' = Ended("call", "timeout")
    /\ k_session' = FALSE
    /\ k_process' = FALSE
    /\ k_proc' = IF k_proc = "running" THEN "exited" ELSE k_proc
    /\ k_signals' = <<"terminate">>
    /\ UNCHANGED <<k_ctx, k_dis, k_timed, k_ops>>
    /\ UNCHANGED <<now, cbVars, mgrVars, retryVars, lifeVars, getVars, moreVars>>

\* The manager's asyncio.wait_for around the call (client_manager.py:139,
\* 186) times out: it cancels the coroutine suspended at line 62 or 73,
\* which has no except or finally clause, and raises TimeoutError to the
\* manager, whose handlers (146-149, 210-213) record a failure on the
\* breaker and touch nothing of the client.
CallTimesOut ==
    /\ k_call = "pending"
    /\ k_call' = "none"
    /\ k_result' = Ended("call", "timeout")
    /\ UNCHANGED <<k_ctx, k_session, k_process, k_proc, k_dis, k_signals,
                   k_timed, k_ops>>
    /\ UNCHANGED <<now, cbVars, mgrVars, retryVars, lifeVars, getVars, moreVars>>

\* disconnect() is called, lines 75-83 and 98-101.  On a process still
\* running, terminate() is called (83, outside the try): it sends the signal
\* and disconnect goes on to wait, or it raises and the exception leaves
\* disconnect.  With the process gone, a session left over is cleared.
DisconnectCalled(raises) ==
    /\ k_ops < MaxClientOps
    /\ k_dis = "idle"
    /\ k_ctx # "entering"
    /\ k_ops' = k_ops + 1
    /\ k_timed' = FALSE
    /\ IF k_process /\ k_proc = "running"
       THEN IF ~raises
            THEN /\ k_signals' = <<"terminate">>
                 /\ k_dis' = "waiting"
                 /\ UNCHANGED <<k_session, k_result>>
            ELSE /\ k_signals' = <<>>
                 /\ k_result' = Ended("disconnect", "raised")
                 /\ UNCHANGED <<k_session, k_dis>>
       ELSE /\ ~raises
            /\ k_signals' = <<>>
            /\ k_session' = FALSE
            /\ k_result' = Ended("disconnect", "returned")
            /\ UNCHANGED k_dis
    /\ UNCHANGED <<k_ctx, k_process, k_proc>>
    /\ UNCHANGED k_call
    /\ UNCHANGED <<now, cbVars, mgrVars, retryVars, lifeVars, getVars, moreVars>>

\* lines 94-97, the finally clause.
Finally ==
    /\ k_process' = FALSE
    /\ k_session' = FALSE
    /\ k_dis' = "idle"

\* line 85: the process exits within the 5 seconds; disconnect returns.
WaitReturns ==
    /\ k_dis = "waiting"
    /\ k_proc' = "exited"
    /\ Finally
    /\ k_result' = Ended("disconnect", "returned")
    /\ UNCHANGED <<k_ctx, k_signals, k_timed, k_ops>>
    /\ UNCHANGED k_call
    /\ UNCHANGED <<now, cbVars, mgrVars, retryVars, lifeVars, getVars, moreVars>>

\* lines 87-89: wait_for times out and kill() is called: it sends the
\* signal and disconnect waits again (90), or it raises inside the except
\* clause and the exception leaves disconnect after the finally clause.
WaitTimesOut(raises) ==
    /\ k_dis = "waiting"
    /\ k_timed' = TRUE
    /\ IF ~raises
       THEN /\ k_signals' = Append(k_signals, "kill")
            /\ k_dis' = "killed"
            /\ UNCHANGED <<k_process, k_session, k_result>>
       ELSE /\ Finally
            /\ k_result' = Ended("disconnect", "raised")
            /\ UNCHANGED k_signals
    /\ UNCHANGED <<k_ctx, k_proc, k_ops>>
    /\ UNCHANGED k_call
    /\ UNCHANGED <<now, cbVars, mgrVars, retryVars, lifeVars, getVars, moreVars>>

\* lines 92-97: the wait raises an error that is not a timeout; it is
\* printed and disconnect returns, the process being where it was.
WaitRaises ==
    /\ k_dis = "waiting"
    /\ Finally
    /\ k_result' = Ended("disconnect", "returned")
    /\ UNCHANGED <<k_ctx, k_proc, k_signals, k_timed, k_ops>>
    /\ UNCHANGED k_call
    /\ UNCHANGED <<now, cbVars, mgrVars, retryVars, lifeVars, getVars, moreVars>>

\* line 90: the killed process has exited; disconnect returns.
KilledExits ==
    /\ k_dis = "killed"
    /\ k_proc' = "exited"
    /\ Finally
    /\ k_result' = Ended("disconnect", "returned")
    /\ UNCHANGED <<k_ctx, k_signals, k_timed, k_ops>>
    /\ UNCHANGED k_call
    /\ UNCHANGED <<now, cbVars, mgrVars, retryVars, lifeVars, getVars, moreVars>>

\* line 90 raises inside the except clause: the exception leaves disconnect
\* after the finally clause.
KilledWaitRaises ==
    /\ k_dis = "killed"
    /\ Finally
    /\ k_result' = Ended("disconnect", "raised")
    /\ UNCHANGED <<k_ctx, k_proc, k_signals, k_timed, k_ops>>
    /\ UNCHANGED k_call
    /\ UNCHANGED <<now, cbVars, mgrVars, retryVars, lifeVars, getVars, moreVars>>

NextClient ==
    \/ ConnectCalled
    \/ ConnectEnters
    \/ ConnectFails
    \/ \E outcome \in CloseOutcomes : ContextLeft(outcome)
    \/ ProcessEnds
    \/ ClientCalled
    \/ CallReturns
    \/ CallRaises
    \/ CallTimesOut
    \/ \E raises \in BOOLEAN : DisconnectCalled(raises)
    \/ WaitReturns
    \/ \E raises \in BOOLEAN : WaitTimesOut(raises)
    \/ WaitRaises
    \/ KilledExits
    \/ KilledWaitRaises

\* --------------------------------- MultiClientManager.__init__: actions
\* MultiClientManager(config) is entered, lines 51-55: both dictionaries are
\* empty.
InitBuild ==
    /\ b_config \in [Servers -> ServerDefinitions \cup {NotConfigured}]
    /\ b_pos = 0
    /\ b_clients = [s \in Servers |-> "none"]
    /\ b_breakers = [s \in Servers |-> <<>>]
    /\ b_raised = {}

\* No construction is followed.
NoBuild ==
    /\ b_config = [s \in Servers |-> NotConfigured]
    /\ b_pos = Len(BuildOrder)
    /\ b_clients = [s \in Servers |-> "none"]
    /\ b_breakers = [s \in Servers |-> <<>>]
    /\ b_raised = {}

\* One turn of the loop of _initialize_clients, lines 60-88, for the next
\* server of mcpServers.
InitializeClients ==
    /\ b_pos < Len(BuildOrder)
    /\ b_pos' = b_pos + 1
    /\ LET s == BuildOrder[b_pos + 1]
           d == b_config[s]
       IN  IF d = NotConfigured
           THEN UNCHANGED <<b_clients, b_breakers, b_raised>>
           ELSE /\ b_breakers' = [b_breakers EXCEPT ![s] = BreakerFor(d)]
                /\ b_clients' = [b_clients EXCEPT ![s] = ClientFor(d)]
                /\ b_raised' = IF InitializationRaises(d)
                               THEN b_raised \cup {s} ELSE b_raised
    /\ UNCHANGED b_config
    /\ UNCHANGED <<now, cbVars, mgrVars, retryVars, lifeVars, getVars, clientVars,
                   routerVars, gameVars>>

NextBuild == InitializeClients

\* ------------------------------------------------- RequestRouter: actions
NoAnswer == [kind |-> "none", val |-> <<>>]

\* A RequestRouter with its two clients (router.py:13-17), no call made.
InitRouter ==
    /\ q_pc = "idle"
    /\ q_prompt = [tag |-> "none", complex |-> FALSE]
    /\ q_route = "none"
    /\ q_local = "none"
    /\ q_provider = "none"
    /\ q_locals = 0
    /\ q_providers = 0
    /\ q_sent = "none"
    /\ q_result = NoAnswer
    /\ q_calls = 0

\* No router is followed.
NoRouter ==
    /\ q_pc = "idle"
    /\ q_prompt = [tag |-> "none", complex |-> FALSE]
    /\ q_route = "none"
    /\ q_local = "none"
    /\ q_provider = "none"
    /\ q_locals = 0
    /\ q_providers = 0
    /\ q_sent = "none"
    /\ q_result = NoAnswer
    /\ q_calls = MaxRouterCalls

\* generate_with_fallback(prompt) is called, lines 19-29: the route is
\* determined and the chosen client's generate is awaited.
GenerateWithFallback(prompt) ==
    /\ q_pc \in {"idle", "done"}
    /\ q_calls < MaxRouterCalls
    /\ q_calls' = q_calls + 1
    /\ q_prompt' = prompt
    /\ q_route' = DetermineRoute(prompt)
    /\ q_pc' = DetermineRoute(prompt)
    /\ q_local' = "none"
    /\ q_provider' = "none"
    /\ q_locals' = IF DetermineRoute(prompt) = "local" THEN 1 ELSE 0
    /\ q_providers' = IF DetermineRoute(prompt) = "provider" THEN 1 ELSE 0
    /\ q_sent' = IF DetermineRoute(prompt) = "provider" THEN CleanPrompt ELSE "none"
    /\ q_result' = NoAnswer
    /\ UNCHANGED <<now, cbVars, mgrVars, retryVars, lifeVars, getVars, clientVars,
                   buildVars, gameVars>>

\* local_client.generate ends, lines 29-46: a response without "CLI Error:"
\* is returned (36); otherwise the except clause calls the provider with the
\* fallback prompt (40-46).
LocalAnswers(run) ==
    /\ q_pc = "local"
    /\ q_local' = run
    /\ IF LocalFailed(LocalGenerate(run))
       THEN /\ q_pc' = "fallback"
            /\ q_providers' = q_providers + 1
            /\ q_sent' = FallbackPrompt
            /\ UNCHANGED q_result
       ELSE /\ q_pc' = "done"
            /\ q_result' = LocalGenerate(run)
            /\ UNCHANGED <<q_providers, q_sent>>
    /\ UNCHANGED <<q_prompt, q_route, q_provider, q_locals, q_calls>>
    /\ UNCHANGED <<now, cbVars, mgrVars, retryVars, lifeVars, getVars, clientVars,
                   buildVars, gameVars>>

\* provider_client.generate ends: as the preferred route its response is
\* returned (36) and its exception raised (38-53, the local client is not
\* tried); in the fallback its response is returned (46) and its exception
\* raised (47-49).
ProviderAnswers(run) ==
    /\ q_pc \in {"provider", "fallback"}
    /\ q_provider' = run
    /\ q_pc' = "done"
    /\ q_result' = ProviderGenerate(run)
    /\ UNCHANGED <<q_prompt, q_route, q_local, q_locals, q_providers, q_sent,
                   q_calls>>
    /\ UNCHANGED <<now, cbVars, mgrVars, retryVars, lifeVars, getVars, clientVars,
                   buildVars, gameVars>>

NextRouter ==
    \/ \E prompt \in Prompts : GenerateWithFallback(prompt)
    \/ \E run \in LocalRuns \cup {ClientRaises} : LocalAnswers(run)
    \/ \E run \in ProviderRuns \cup {ClientRaises} : ProviderAnswers(run)

\* ------------------------------------------------ GameRulesServer: actions
\* The tools are coroutines without an await in their body, and each opens
\* its own sqlite3 connection and commits before returning: a tool call is
\* one step of the server's event loop.
ToolResult(tool, session_id, success, solved) ==
    [tool |-> tool, session |-> session_id, success |-> success,
     solved |-> solved]
NoToolCall == ToolResult("none", UnknownSession, FALSE, FALSE)

\* A GameRulesServer on a fresh database (lines 56-59).
InitGame ==
    /\ v_sessions = [s \in SessionIds |-> NoSession]
    /\ v_last = NoToolCall
    /\ v_calls = 0

\* No game server is followed.
NoGame ==
    /\ v_sessions = [s \in SessionIds |-> NoSession]
    /\ v_last = NoToolCall
    /\ v_calls = MaxToolCalls

\* _start_game_tool, lines 188-210: an unknown puzzle is refused; otherwise
\* a session with a fresh id is stored.
StartGame(puzzle_id, session_id) ==
    /\ v_calls < MaxToolCalls
    /\ v_calls' = v_calls + 1
    /\ v_sessions[session_id] = NoSession
    /\ IF puzzle_id \notin PuzzleIds
       THEN /\ v_last' = ToolResult("start_game", UnknownSession, FALSE, FALSE)
            /\ UNCHANGED v_sessions
       ELSE /\ v_sessions' = [v_sessions EXCEPT ![session_id] = NewSession]
            /\ v_last' = ToolResult("start_game", session_id, TRUE, FALSE)
    /\ UNCHANGED <<now, cbVars, mgrVars, retryVars, lifeVars, getVars, clientVars,
                   buildVars, routerVars>>

\* The row _get_game_session finds for an id (lines 159-175).
GetGameSession(session_id) ==
    IF session_id \in SessionIds THEN v_sessions[session_id] ELSE NoSession

\* _evaluate_question_tool, lines 212-242.
EvaluateQuestion(session_id) ==
    /\ v_calls < MaxToolCalls
    /\ v_calls' = v_calls + 1
    /\ LET game_session == GetGameSession(session_id)
       IN  IF Refusal(game_session) # "none"
           THEN /\ v_last' = ToolResult("evaluate_question", session_id, FALSE, FALSE)
                /\ UNCHANGED v_sessions
           ELSE /\ v_sessions' = [v_sessions EXCEPT ![session_id] =
                                     AfterQuestion(game_session)]
                /\ v_last' = ToolResult("evaluate_question", session_id, TRUE, FALSE)
    /\ UNCHANGED <<now, cbVars, mgrVars, retryVars, lifeVars, getVars, clientVars,
                   buildVars, routerVars>>

\* _check_guess_tool, lines 244-269.
CheckGuess(session_id, user_guess) ==
    /\ v_calls < MaxToolCalls
    /\ v_calls' = v_calls + 1
    /\ LET game_session == GetGameSession(session_id)
       IN  IF Refusal(game_session) # "none"
           THEN /\ v_last' = ToolResult("check_guess", session_id, FALSE, FALSE)
                /\ UNCHANGED v_sessions
           ELSE /\ v_sessions' = [v_sessions EXCEPT ![session_id] =
                                     AfterGuess(game_session, user_guess)]
                /\ v_last' = ToolResult("check_guess", session_id, TRUE,
                                        IsCorrect(user_guess))
    /\ UNCHANGED <<now, cbVars, mgrVars, retryVars, lifeVars, getVars, clientVars,
                   buildVars, routerVars>>

NextGame ==
    \/ \E p \in PuzzleIds \cup {UnknownPuzzle}, s \in SessionIds : StartGame(p, s)
    \/ \E s \in SessionIds \cup {UnknownSession} : EvaluateQuestion(s)
    \/ \E s \in SessionIds \cup {UnknownSession}, g \in Guesses : CheckGuess(s, g)

\* Neither a construction, a router nor a game server is followed.
NoMore == NoBuild /\ NoRouter /\ NoGame

\* ---------------------------------------------------------- specifications
\* A bare CircuitBreaker under concurrent callers.
Init ==
    /\ now = 0
    /\ InitCB
    /\ NoMgr
    /\ NoRetry
    /\ NoLife
    /\ NoGet
    /\ NoClient
    /\ NoMore

Spec == Init /\ [][NextCB]_vars

\* No caller uses a bare breaker (specification SpecMgr drives the manager).
NoCB ==
    /\ cb = NewBreaker(DefaultFailureThreshold, DefaultResetTimeout)
    /\ pc = [c \in Callers |-> "idle"]
    /\ received = [c \in Callers |-> None]
    /\ op_outcome = [c \in Callers |-> None]
    /\ admitted_in = [c \in Callers |-> "none"]
    /\ attempts = 0
    /\ op_calls = 0
    /\ consec = 0
    /\ max_consec = 0
    /\ total_failed = 0
    /\ ref_state = "CLOSED"
    /\ last_event = NoEvent

InitM ==
    /\ now = 0
    /\ NoCB
    /\ InitMgr
    /\ NoRetry
    /\ NoLife
    /\ NoGet
    /\ NoClient
    /\ NoMore

\* A MultiClientManager under concurrent callers.
SpecMgr == InitM /\ [][NextMgr]_vars

\* A MultiClientManager whose scope ends while it is in use.
SpecExit == InitM /\ [][NextExit]_vars

InitR ==
    /\ now = 0
    /\ NoCB
    /\ NoMgr
    /\ InitRetry
    /\ NoLife
    /\ NoGet
    /\ NoClient
    /\ NoMore

\* One run of retry_with_backoff, or of call_tool's timed client call.
SpecRetry == InitR /\ [][NextRetry]_vars

InitL ==
    /\ now = 0
    /\ NoCB
    /\ NoMgr
    /\ NoRetry
    /\ InitLife
    /\ InitGet
    /\ NoClient
    /\ NoMore

NextLife == NextScope \/ NextGet

\* The scope of one manager, from construction to the end of the scope, with
\* MCPManager's tool listing called at any time.
SpecLife == InitL /\ [][NextLife]_vars

\* An MCPManager in use: each client either connected by initialize_all or
\* left without a session by a connect that failed.
InitInUse ==
    /\ l_mgr = "mcp"
    /\ l_sess \in [Registered -> BOOLEAN]
    /\ l_conn = [s \in Registered |-> IF l_sess[s] THEN "connected" ELSE "failed"]
    /\ l_proc = [s \in Registered |-> IF l_sess[s] THEN "running" ELSE "none"]
    /\ l_phase = IF AllConnected(l_conn) THEN "inside" ELSE "ended"
    /\ l_exit = IF AllConnected(l_conn) THEN "none" ELSE "startup_failed"
    /\ l_stack = <<>>
    /\ l_init = AllConnected(l_conn)
    /\ l_clients = Registered
    /\ l_close = [s \in Registered |-> "none"]
    /\ l_shut = IF AllConnected(l_conn) THEN "none" ELSE "skipped"
    /\ l_hangs = {}
    /\ l_live = [s \in Registered |-> IF l_sess[s] THEN 1 ELSE 0]
    /\ l_inits = 1
    /\ l_regs = 0
    /\ l_call = NoCall

\* One of the two managers is in use: a MultiClientManager, or an MCPManager
\* (beside a MultiClientManager without servers).
InitAgg ==
    /\ now = 0
    /\ NoCB
    /\ NoRetry
    /\ \/ InitMgr /\ NoLife /\ NoGet
       \/ NoMgr /\ InitInUse /\ InitGet
    /\ NoClient
    /\ NoMore

NextAgg ==
    \/ TickMgr
    \/ \E c \in Callers : ListTools(c)
    \/ \E c \in Callers, s \in Servers : UnitStarts(c, s)
    \/ \E c \in Callers, s \in Servers : UnitReturns(c, s)
    \/ \E c \in Callers, s \in Servers, e \in ClientErrors : UnitRaises(c, s, e)
    \/ \E c \in Callers : ListReturns(c)
    \/ NextGet

\* The two aggregate listings, MultiClientManager.list_tools and
\* MCPManager.get_all_tools, each on its own manager.
SpecAgg == InitAgg /\ [][NextAgg]_vars

\* A client that can answer does answer.
SpecLifeFair ==
    /\ SpecLife
    /\ WF_vars(ClientListReturns \/ \E e \in ClientErrors : ClientListRaises(e))

InitS ==
    /\ now = 0
    /\ NoCB
    /\ NoMgr
    /\ NoRetry
    /\ InitLife
    /\ NoGet
    /\ NoClient
    /\ NoMore

\* The scope of one manager on its own.
SpecScope == InitS /\ [][NextScope]_vars

\* A close that can complete does complete, and a shutdown whose wait is
\* over goes on.
SpecScopeFair ==
    /\ SpecScope
    /\ WF_vars(\E outcome \in CloseOutcomes : AExitCloses(outcome))
    /\ WF_vars(AExitReturns)
    /\ \A s \in Registered :
           WF_vars(\E outcome \in CloseOutcomes : Disconnects(s, outcome))
    /\ WF_vars(ShutdownReturns \/ ShutdownRaises)

InitK ==
    /\ now = 0
    /\ NoCB
    /\ NoMgr
    /\ NoRetry
    /\ NoLife
    /\ NoGet
    /\ InitClient
    /\ NoMore

\* One StdioMCPClient under any sequence of its operations.
SpecClient == InitK /\ [][NextClient]_vars

InitSessions ==
    /\ now = 0
    /\ NoCB
    /\ NoMgr
    /\ NoRetry
    /\ NoGet
    /\ \/ InitLife /\ NoClient
       \/ NoLife /\ InitClient
    /\ NoMore

\* The sessions of a manager's clients, or of a StdioMCPClient on its own.
SpecSessions == InitSessions /\ [][NextScope \/ NextClient]_vars

InitB ==
    /\ now = 0
    /\ NoCB
    /\ NoMgr
    /\ NoRetry
    /\ NoLife
    /\ NoGet
    /\ NoClient
    /\ InitBuild
    /\ NoRouter
    /\ NoGame

\* The construction of one MultiClientManager from a configuration.
SpecBuild == InitB /\ [][NextBuild]_vars

InitQ ==
    /\ now = 0
    /\ NoCB
    /\ NoMgr
    /\ NoRetry
    /\ NoLife
    /\ NoGet
    /\ NoClient
    /\ NoBuild
    /\ InitRouter
    /\ NoGame

\* One RequestRouter, its calls one after the other.
SpecRouter == InitQ /\ [][NextRouter]_vars

InitV ==
    /\ now = 0
    /\ NoCB
    /\ NoMgr
    /\ NoRetry
    /\ NoLife
    /\ NoGet
    /\ NoClient
    /\ NoBuild
    /\ NoRouter
    /\ InitGame

\* One GameRulesServer under any sequence of tool calls.
SpecGame == InitV /\ [][NextGame]_vars

\* ------------------------------------------------- claims on CircuitBreaker
InFlight(c) == pc[c] = "running"
Trials == {c \in Callers : InFlight(c) /\ admitted_in[c] = "HALF_OPEN"}
Elapsed == now - cb.last_failure_time
\* The step is caller c entering __call__.
AttemptBy(c) == attempts' = attempts + 1 /\ last_event'.caller = c
\* The step is the end of caller c's admitted call.
FinishBy(c) == pc[c] = "running" /\ pc'[c] = "idle"

\* C1: starting CLOSED with threshold N >= 1, as long as every run of
\* consecutive failing operations has been shorter than N the breaker is
\* CLOSED, and the failing operation that makes a run N long leaves it OPEN.
C1_OpensAtThreshold ==
    /\ max_consec < cb.failure_threshold => cb.state = "CLOSED"
    /\ (last_event.kind = "failure" /\ consec >= cb.failure_threshold)
           => cb.state = "OPEN"

C1_Witness ==
    /\ cb.failure_threshold = 3
    /\ last_event.kind = "failure"
    /\ total_failed = 3
    /\ consec = 3
    /\ cb.state = "OPEN"

\* C2: a call attempt made while the breaker is OPEN and at most
\* reset_timeout has elapsed since the last recorded failure raises
\* CircuitBreakerOpenError and does not invoke the wrapped operation.
C2_OpenRejectsWithoutInvoking ==
    [][\A c \in Callers :
          (cb.state = "OPEN" /\ Elapsed <= cb.reset_timeout /\ AttemptBy(c))
              => /\ received'[c] = Raised("CircuitBreakerOpenError")
                 /\ op_calls' = op_calls
                 /\ pc'[c] = "idle"]_vars

C2_Witness ==
    /\ last_event.kind = "reject"
    /\ last_event.from = "OPEN"
    /\ last_event.elapsed = cb.reset_timeout
    /\ received[last_event.caller] = Raised("CircuitBreakerOpenError")

\* C3: during the HALF_OPEN window at most one admitted operation (the
\* trial) is in flight; a call arriving while the trial is outstanding is
\* rejected.
C3_SingleTrial == Cardinality(Trials) <= 1

\* C4: when a call admitted in HALF_OPEN succeeds the breaker becomes CLOSED
\* with failure counter 0; when it fails the breaker becomes OPEN and the
\* last-failure time is the time of that failure.
C4_TrialOutcomeDecides ==
    [][\A c \in Callers :
          (FinishBy(c) /\ admitted_in[c] = "HALF_OPEN")
              => IF received'[c].kind = "return"
                 THEN cb'.state = "CLOSED" /\ cb'.failures = 0
                 ELSE cb'.state = "OPEN" /\ cb'.last_failure_time = now]_vars

\* C5: a success recorded while CLOSED leaves the failure counter at 0, so
\* however many operations fail in total the breaker is CLOSED as long as
\* no run of consecutive failures reaches the threshold.
C5_SuccessResetsCounter ==
    /\ (last_event.kind = "success" /\ last_event.from = "CLOSED")
           => cb.failures = 0
    /\ max_consec < cb.failure_threshold
           => cb.state = "CLOSED" /\ cb.failures < cb.failure_threshold

C5_Witness ==
    /\ total_failed >= cb.failure_threshold
    /\ max_consec < cb.failure_threshold
    /\ last_event.kind = "success"
    /\ cb.state = "CLOSED"

\* C6: the caller of an admitted call receives exactly what the wrapped
\* operation returned or raised.
C6_OutcomeUnchanged ==
    \A c \in Callers :
        (pc[c] = "idle" /\ op_outcome[c] # None) => received[c] = op_outcome[c]

C6_Witness ==
    \E c \in Callers :
        /\ pc[c] = "idle"
        /\ admitted_in[c] = "HALF_OPEN"
        /\ op_outcome[c] = Raised("ConnectionError")
        /\ received[c] = Raised("ConnectionError")

\* C7: under every interleaving of concurrent callers the failure counter
\* equals the number of failures recorded since the last recorded success,
\* and the state is the one the transition rules give for the recorded
\* sequence.
C7_NoLostUpdate ==
    /\ cb.failures = consec
    /\ cb.state = ref_state

C7_Witness ==
    /\ last_event.kind = "failure"
    /\ \E c \in Callers : c # last_event.caller /\ InFlight(c)
    /\ cb.state = "OPEN"
    /\ cb.failures > cb.failure_threshold

\* C8: OPEN becomes HALF_OPEN only in a call attempt made when strictly more
\* than reset_timeout has elapsed since the last recorded failure; any other
\* step leaves an OPEN breaker OPEN, and an attempt made at or before
\* reset_timeout is rejected.
C8_HalfOpenOnlyOnLateAttempt ==
    [][cb.state = "OPEN" =>
          /\ cb'.state \in {"OPEN", "HALF_OPEN"}
          /\ cb'.state = "HALF_OPEN"
                 => attempts' = attempts + 1 /\ Elapsed > cb.reset_timeout
          /\ (attempts' = attempts + 1 /\ Elapsed <= cb.reset_timeout)
                 => /\ cb'.state = "OPEN"
                    /\ last_event'.kind = "reject"]_vars

C8_Witness ==
    /\ last_event.kind = "admit"
    /\ last_event.from = "OPEN"
    /\ last_event.elapsed = cb.reset_timeout + 1
    /\ cb.state = "HALF_OPEN"

\* --------------------------------------------- claims on MultiClientManager
CallToolEndings == {"no_target", "no_client", "breaker_open", "timeout", "error", "ok"}

\* C9: every failed manager operation against a server (a call_tool or a
\* list_tools unit ending in a timeout or an error) records exactly one
\* failure against that server's breaker: the breaker's counter equals the
\* number of manager operations that failed since the last successful one.
C9_OneFailurePerOperation ==
    \A s \in Servers : cbs[s].failures = m_consec[s]

\* C10 as stated: call_tool never raises to its caller, whatever the outcome.
C10_NeverRaises ==
    m_done.how \in CallToolEndings => m_done.result.kind = "return"

\* C10 as amended: call_tool raises only ValueError, and only when no target
\* can be resolved or the resolved server has no client; an open breaker, a
\* timeout and any other error of the client call give a returned result
\* with success = FALSE, and a call the client answered returns a result.
C10_RaisesOnlyValueError ==
    /\ m_done.how \in {"no_target", "no_client"}
           => /\ m_done.result.kind = "raise"
              /\ m_done.result.val \in {NoTargetError, NoClientError}
    /\ m_done.how \in {"breaker_open", "timeout", "error"}
           => /\ m_done.result.kind = "return"
              /\ m_done.result.val.success = FALSE
    /\ m_done.how = "ok" => m_done.result.kind = "return"

C10_Witness ==
    /\ m_done.how = "timeout"
    /\ ServerType(m_done.target) = "remote"
    /\ m_done.result.kind = "return"
    /\ m_done.result.val.success = FALSE

\* The step starts a client.call_tool for caller c: the first attempt of a
\* call_tool, or the next attempt of retry_with_backoff's loop.
Invokes(c) == m_pc[c] # "calling" /\ m_pc'[c] = "calling"
ServerNames == Servers \cup {NoServer, UnknownServer}

\* C11: call_tool resolves its target as the explicit server_name when one
\* is given (whatever the default), else the configured default_server, else
\* it fails with the 'no target' error; every client.call_tool the call
\* makes, retries included, goes to the client of the resolved server.
C11_TargetResolution ==
    [][/\ \A c \in Callers, n \in ServerNames :
              CallTool(c, n) =>
                  IF n # NoServer
                  THEN /\ m_done'.how # "no_target"
                       /\ m_done'.caller = c => m_done'.target = n
                       /\ Invokes(c) => m_target'[c] = n
                  ELSE IF default_server # NoServer
                  THEN /\ m_done'.how # "no_target"
                       /\ m_done'.caller = c => m_done'.target = default_server
                       /\ Invokes(c) => m_target'[c] = default_server
                  ELSE /\ m_done'.result = Raised(NoTargetError)
                       /\ ~Invokes(c)
       /\ \A c \in Callers :
              (m_pc[c] \in {"calling", "sleeping"} /\ m_pc'[c] # "idle")
                  => m_target'[c] = m_target[c]]_vars

C11_Witness ==
    \E c \in Callers :
        /\ default_server = "local_dev_server"
        /\ m_pc[c] = "calling"
        /\ m_attempt[c] > 0
        /\ m_target[c] = "remote_prod_server"

\* The step is caller c entering call_tool with a target that resolves to
\* server s.
CallToolOn(c, s) ==
    \E n \in ServerNames : CallTool(c, n) /\ ResolveTarget(n, default_server) = s

\* C12: a call_tool whose target's breaker is OPEN with at most reset_timeout
\* elapsed since the last failure returns a failure result, starts no
\* client.call_tool, and leaves the breaker (state, failure counter,
\* last-failure time) as it was.
C12_RejectionLeavesBreaker ==
    [][\A c \in Callers, s \in Servers :
          (/\ CallToolOn(c, s)
           /\ s \in clients
           /\ cbs[s].state = "OPEN"
           /\ now - cbs[s].last_failure_time <= cbs[s].reset_timeout)
              => /\ m_done'.caller = c
                 /\ m_done'.result.kind = "return"
                 /\ m_done'.result.val.success = FALSE
                 /\ ~Invokes(c)
                 /\ m_pc'[c] = "idle"
                 /\ cbs'[s].failures = cbs[s].failures
                 /\ cbs'[s].last_failure_time = cbs[s].last_failure_time
                 /\ cbs'[s].state = "OPEN"]_vars

C12_Witness ==
    /\ m_done.how = "breaker_open"
    /\ m_done.target \in Servers
    /\ cbs[m_done.target].state = "OPEN"
    /\ now - cbs[m_done.target].last_failure_time = cbs[m_done.target].reset_timeout
    /\ m_done.result = Returned(BreakerOpenResult)

C17_LocalNotRetried ==
    \A c \in Callers :
        (m_pc[c] = "sleeping" \/ m_attempt[c] > 0)
            => ServerType(m_target[c]) = "remote"

C17_Witness ==
    /\ m_done.how = "timeout"
    /\ ServerType(m_done.target) = "local"
    /\ \E c \in Callers : m_pc[c] = "sleeping" /\ m_attempt[c] = 1

\* ------------------------------------------------ claims on retry_with_backoff
\* The errors func raised before its last one.
EarlierErrors == SubSeq(r_errors, 1, Len(r_errors) - 1)
Finished == r_pc = "done" /\ r_use = "bare"
\* The call ended because func raised an error that is not retryable.
EndedByOther ==
    /\ Finished
    /\ r_errors # <<>>
    /\ r_result.kind = "raise"
    /\ r_errors[Len(r_errors)] \notin ToolCallRetryable

\* C15: when func raises an error that is not retryable, retry_with_backoff
\* raises that same error at once: func has been invoked once more than it
\* failed with retryable errors before, one sleep was taken per earlier
\* failure and none after the error.
C15_NonRetryableRaisedAtOnce ==
    /\ \A k \in 1..Len(r_errors) :
           r_errors[k] \notin ToolCallRetryable
               => k = Len(r_errors) /\ r_pc = "done"
    /\ EndedByOther
           => /\ r_result = Raised(r_errors[Len(r_errors)])
              /\ \A k \in 1..Len(EarlierErrors) :
                     EarlierErrors[k] \in ToolCallRetryable
              /\ r_invoked = Len(EarlierErrors) + 1
              /\ Len(r_sleeps) = Len(EarlierErrors)

C15_Witness ==
    /\ EndedByOther
    /\ r_max = 3
    /\ r_errors = <<"ConnectionError", "TimeoutError", "RuntimeError">>
    /\ r_invoked = 3
    /\ r_result = Raised("RuntimeError")

\* The call ended because the loop ran out of attempts.
Exhausted ==
    /\ Finished
    /\ r_result.kind = "raise"
    /\ \A k \in 1..Len(r_errors) : r_errors[k] \in ToolCallRetryable

\* C16 as stated: with max_retries = M func is never invoked more than M
\* times.
C16_AtMostMaxRetries == r_use = "bare" => r_invoked <= r_max

\* C16 as amended: with max_retries = M func is invoked at most M + 1 times
\* (one first attempt and M retries); when every attempt fails with a
\* retryable error there are exactly M + 1 invocations and M sleeps, and the
\* error raised is the one of the last attempt.
C16_AtMostMaxRetriesPlusOne ==
    /\ r_use # "local" => r_invoked <= r_max + 1 /\ Len(r_sleeps) <= r_max
    /\ Exhausted
           => /\ r_invoked = r_max + 1
              /\ Len(r_sleeps) = r_max
              /\ Len(r_errors) = r_max + 1
              /\ r_result = Raised(r_errors[Len(r_errors)])

C16_Witness ==
    /\ Exhausted
    /\ r_max = 3
    /\ r_invoked = 4
    /\ r_errors = <<"ConnectionError", "ConnectionError", "ConnectionError",
                    "TimeoutError">>
    /\ r_result = Raised("TimeoutError")

\* The timeout the server's configuration asks for, in seconds: the
\* configured value, or the default when the configuration omits it.
ConfiguredCallTimeout(cfg) ==
    IF cfg = <<>> THEN DEFAULT_TOOL_CALL_TIMEOUT ELSE cfg[1]
\* A call_tool ended, and every client call it made never completed.
EndedAllHung ==
    /\ r_pc = "done"
    /\ r_use \in {"local", "remote"}
    /\ r_hung > 0
    /\ r_hung = r_invoked

\* C13: a call_tool on a server whose client call never completes returns
\* the timeout failure result after at most that server's call timeout (the
\* configured one, or the default of 30 seconds), on a local and on a remote
\* server alike.
C13_TimeoutBound ==
    EndedAllHung
        => /\ r_result = Returned(TimeoutResult)
           /\ r_elapsed <= ConfiguredCallTimeout(r_cfg) * TicksPerSecond

\* ---------------------------------------------------- claims on the scopes
\* C20: once a manager's scope has ended, by a normal exit, by an error
\* inside the scope or by a connect that failed during startup after other
\* servers were connected, no server process the manager started is running.
C20_NoProcessOutlivesScope ==
    l_phase = "ended" => \A s \in Registered : l_proc[s] # "running"

\* C19: a get_all_tools that has started returns, even when the list_tools
\* of one server never completes, and its result has the tools of every
\* other connected server.
C19_StragglerDoesNotBlock ==
    /\ (g_pc = "fetching") ~> (g_pc = "idle" /\ g_result.kind = "return")
    /\ [](g_result.kind = "return"
             => \A s \in Registered \ g_hung :
                    l_sess[s] => g_result.val[s] \in {"tools", "empty"})

\* ------------------------------------------- claims on the aggregate listings
\* C18: the aggregate listing gives partial results and never raises.
\* list_tools returns the tools of exactly the servers whose unit returned
\* them: a server whose breaker is OPEN when the listing starts is skipped,
\* and a unit that was skipped, rejected or failed (timeout or error) stays
\* so and contributes nothing.  get_all_tools returns one entry per
\* registered server, empty for a server whose list_tools raised.
C18_PartialResults ==
    [][/\ \A c \in Callers :
              (m_pc[c] = "listing" /\ m_pc'[c] = "idle")
                  => /\ m_done'.result.kind = "return"
                     /\ \A s \in Servers :
                            s \in m_done'.result.val <=> m_units[c][s] = "listed"
       /\ \A c \in Callers, s \in Servers :
              /\ (m_pc[c] = "idle" /\ m_pc'[c] = "listing" /\ cbs[s].state = "OPEN")
                     => m_units'[c][s] = "skipped"
              /\ (m_units[c][s] \in {"skipped", "rejected", "failed"}
                      /\ m_pc'[c] = "listing")
                     => m_units'[c][s] = m_units[c][s]
       /\ g_result'.kind # "raise"
       /\ g_result'.kind = "return"
              => /\ DOMAIN g_result'.val = Registered
                 /\ \A s \in Registered :
                        /\ g_result'.val[s] \in {"tools", "empty"}
                        /\ ~l_sess[s] => g_result'.val[s] = "empty"
       /\ \A e \in ClientErrors :
              ClientListRaises(e)
                  => IF g_pc' = "idle"
                     THEN g_result'.val[RegOrder[g_at]] = "empty"
                     ELSE g_tools'[RegOrder[g_at]] = "empty"]_vars

C18_Witness ==
    /\ m_done.how = "listed"
    /\ m_done.result = Returned({"remote_prod_server"})
    /\ session["local_dev_server"]
    /\ cbs["local_dev_server"].state = "OPEN"
    /\ m_consec["local_dev_server"] > 0

\* C21: startup is best-effort per server.  When the connect of one server
\* fails, startup still completes without raising, and once the startup is
\* over every other server is connected with its session set.
C21_StartupBestEffort ==
    /\ l_exit # "startup_failed"
    /\ (l_phase \in {"inside", "closing", "ended"}
            /\ \E s \in Registered : l_conn[s] = "failed")
           => \A s \in Registered :
                  l_conn[s] # "failed" => l_conn[s] = "connected" /\ l_sess[s]

\* C22: shutdown attempts the close of every session regardless of
\* individual failures.  Once the shutdown has returned or raised, the close
\* of every session has been attempted and has finished, whichever of them
\* raised, the manager holds no client, and no process is running.
C22_ShutdownClosesAll ==
    l_shut \in {"returned", "raised"}
        => /\ \A s \in Registered : l_close[s] \in CloseOutcomes
           /\ l_clients = {}
           /\ \A s \in Registered : l_proc[s] # "running"

\* C23: when the close of one session hangs, shutdown still closes every
\* other session and itself returns: a shutdown that has started ends, and
\* the close of every session that does not hang finishes.
C23_HangingCloseIsBounded ==
    /\ (l_phase = "closing") ~> (l_shut \in {"returned", "raised"})
    /\ \A s \in Registered :
           (l_close[s] = "pending" /\ s \notin l_hangs)
               ~> (l_close[s] \in CloseOutcomes)

\* ------------------------------------------------- claims on the sessions
\* C24: at every moment each server has at most one live session: no server
\* of a manager has more than one child process running, and a
\* StdioMCPClient starts no process while its process is running.
C24_OneLiveSession ==
    /\ \A s \in Registered : l_live[s] <= 1
    /\ k_ctx = "entering" => k_proc # "running"

\* C25: list_tools and call_tool on a client whose startup handshake has not
\* completed (connect never called, or still in progress) fail at once with
\* the 'not connected' error and send nothing to the server.
C25_NotConnectedFailsFast ==
    [][/\ \A s \in Registered :
              (ClientCall(s) /\ l_conn[s] \in {"idle", "connecting", "spawned", "entered"})
                  => l_call'.outcome = "not_connected"
       /\ (ClientCalled /\ k_ctx \in {"none", "entering"})
              => k_result'.outcome = "not_connected"]_vars

\* ------------------------------------- claims on StdioMCPClient.disconnect
DisconnectReturns ==
    /\ k_dis \in {"waiting", "killed"}
    /\ k_result' = Ended("disconnect", "returned")

\* C26: disconnect on a running process first requests termination, then
\* waits, and kills only when that wait timed out: the signals sent are
\* terminate, or terminate then kill, the kill only after the timeout; and
\* when disconnect returns, the process has exited.
C26_DisconnectOrder ==
    [][/\ k_signals' \in {<<>>, <<"terminate">>, <<"terminate", "kill">>}
       /\ k_signals' = <<"terminate", "kill">> => k_timed'
       /\ DisconnectReturns => k_proc' = "exited"]_vars

\* C27: closing a session is idempotent and never raises.  A disconnect on
\* a client already disconnected changes nothing and sends no signal, and
\* no disconnect ends with an exception: neither StdioMCPClient.disconnect,
\* whatever terminate, wait or kill do, nor LocalMCPClient.disconnect.
C27_DisconnectIdempotentNeverRaises ==
    [][/\ ((\E raises \in BOOLEAN : DisconnectCalled(raises))
              /\ ~k_session /\ ~k_process)
             => /\ UNCHANGED <<k_ctx, k_session, k_process, k_proc, k_dis>>
                /\ k_signals' = <<>>
                /\ k_result' = Ended("disconnect", "returned")
       /\ k_result' # Ended("disconnect", "raised")
       /\ \A s \in Registered :
              l_mgr = "mcp" => l_close'[s] # "raised"]_vars

\* ------------------------------------- claims on the retry loop's counts
LastError == r_errors[Len(r_errors)]

\* C28: retry_with_backoff invokes func until the first attempt that does
\* not raise a retryable error, or until max_retries + 1 invocations.  One
\* sleep separates two invocations and none follows the last one; a return
\* at invocation k comes after k - 1 retryable failures and k - 1 sleeps,
\* with k <= max_retries + 1; a call that ends by raising a retryable error
\* has made max_retries + 1 invocations and max_retries sleeps, and raises
\* the error of the last one.
C28_InvocationsAndSleeps ==
    r_use = "bare" =>
        /\ r_pc = "sleeping" => Len(r_sleeps) = r_invoked
        /\ r_pc \in {"calling", "done"} /\ r_invoked > 0
               => Len(r_sleeps) = r_invoked - 1
        /\ r_pc # "done"
               => \A k \in 1..Len(r_errors) : r_errors[k] \in ToolCallRetryable
        /\ (r_pc = "done" /\ r_result.kind = "return")
               => /\ r_invoked = Len(r_errors) + 1
                  /\ r_invoked <= r_max + 1
                  /\ \A k \in 1..Len(r_errors) : r_errors[k] \in ToolCallRetryable
        /\ (r_pc = "done" /\ r_result.kind = "raise")
               => /\ r_invoked = Len(r_errors)
                  /\ r_result = Raised(LastError)
                  /\ LastError \in ToolCallRetryable
                         => r_invoked = r_max + 1 /\ Len(r_sleeps) = r_max

C28_Witness ==
    /\ r_use = "bare"
    /\ r_pc = "done"
    /\ r_max = 3
    /\ r_result.kind = "return"
    /\ r_errors = <<"TimeoutError", "ConnectionError">>
    /\ r_invoked = 3
    /\ Len(r_sleeps) = 2

\* initial_delay, max_delay and the largest jitter, in ticks.
InitialDelayTicks == DefaultInitialDelay * TicksPerSecond
MaxDelayTicks == DefaultMaxDelay * TicksPerSecond
MaxJitterTicks == (InitialDelayTicks * DefaultJitterPercent) \div 100
JitterFree(i) == Min(InitialDelayTicks * Pow2(i), MaxDelayTicks)

\* C29: the sleep that follows failed attempt i is
\* min(initial_delay * 2^i + j, max_delay) with 0 <= j <= initial_delay *
\* jitter; so it is at most max_delay and at least
\* min(initial_delay * 2^i, max_delay), and that jitter-free part never
\* decreases from one retry to the next.
C29_SleepTimes ==
    \A k \in 1..Len(r_sleeps) :
        LET i == k - 1
        IN  /\ \E j \in 0..MaxJitterTicks :
                   r_sleeps[k] = Min(InitialDelayTicks * Pow2(i) + j, MaxDelayTicks)
            /\ r_sleeps[k] <= MaxDelayTicks
            /\ r_sleeps[k] >= JitterFree(i)
            /\ i > 0 => JitterFree(i - 1) <= JitterFree(i)

C29_Witness ==
    /\ Len(r_sleeps) = 5
    /\ r_sleeps[3] = 4 * InitialDelayTicks + MaxJitterTicks
    /\ r_sleeps[4] = 8 * InitialDelayTicks
    /\ r_sleeps[5] = MaxDelayTicks
    /\ MaxDelayTicks < 16 * InitialDelayTicks

\* ------------------------------------ claims on the breaker under retries
\* The only manager call so far was a call_tool on a remote server that
\* ended in a timeout, that is, after all its attempts timed out.
OneRemoteCallTimedOut ==
    /\ m_calls = 1
    /\ m_done.how = "timeout"
    /\ m_done.target \in Servers
    /\ ServerType(m_done.target) = "remote"

C31_TimeoutLeavesClient ==
    [][(k_call = "pending" /\ k_result'.outcome = "timeout")
          => /\ k_session' = k_session
             /\ k_process' = k_process
             /\ k_proc' = k_proc
             /\ k_ctx' = k_ctx
             /\ k_dis' = k_dis
             /\ k_signals' = k_signals]_vars

\* A call on a connected client with a running process has timed out, and
\* the session is still there and the process still runs.
C31_Witness ==
    /\ k_result = Ended("call", "timeout")
    /\ k_session
    /\ k_proc = "running"
    /\ k_signals = <<>>

\* ---------------------------------------------------- claims on construction
ConfiguredNames == {s \in Servers : b_config[s] # NotConfigured}
\* A configuration that passed McpConfig's validation.
ValidConfiguration ==
    \A s \in ConfiguredNames : b_config[s].holds = Validated
Constructed == b_pos = Len(BuildOrder)

\* C32: once a MultiClientManager has been constructed from a valid
\* configuration, the names with a client, the names with a breaker and the
\* configured names are the same set, and each breaker has the configured
\* threshold and reset timeout, or 3 and 30 where none is configured.
C32_OneClientOneBreaker ==
    (Constructed /\ ValidConfiguration) =>
        /\ {s \in Servers : b_clients[s] # "none"} = ConfiguredNames
        /\ {s \in Servers : b_breakers[s] # <<>>} = ConfiguredNames
        /\ \A s \in ConfiguredNames :
              b_breakers[s] # <<>> =>
                 /\ b_breakers[s][1].failure_threshold =
                       ConfiguredOr(b_config[s].client_config,
                                    "cb_failure_threshold", 3)
                 /\ b_breakers[s][1].reset_timeout =
                       ConfiguredOr(b_config[s].client_config,
                                    "cb_reset_timeout", 30)

\* ------------------------------------------------ claims on the manager's exit
\* C33: when MultiClientManager.__aexit__ has completed, every breaker of the
\* manager is CLOSED with a failure counter of 0, whatever state it was in
\* before.
C33_ExitClosesBreakers ==
    m_done.how = "exited" =>
        \A s \in Servers : cbs[s].state = "CLOSED" /\ cbs[s].failures = 0

\* ------------------------------------------------ claims on listing as a probe
\* C34: a server whose breaker is OPEN is probed by tool listing once more
\* than reset_timeout has passed since its last recorded failure: the
\* list_tools that starts then builds the server's unit of work, which
\* invokes the server's list_tools, instead of skipping the server.
C34_ListingProbesAfterTimeout ==
    [][\A c \in Callers, s \in Servers :
          (/\ m_pc[c] = "idle"
           /\ m_pc'[c] = "listing"
           /\ s \in clients
           /\ ~NotConnected(s, session)
           /\ cbs[s].state = "OPEN"
           /\ now - cbs[s].last_failure_time > cbs[s].reset_timeout)
              => m_units'[c][s] = "pending"]_vars

\* --------------------------------------- claims on the breaker's transitions
\* The state changes the design allows (section 4.2).
LegalTransitions ==
    {<<"CLOSED", "OPEN">>, <<"OPEN", "HALF_OPEN">>,
     <<"HALF_OPEN", "CLOSED">>, <<"HALF_OPEN", "OPEN">>}

C36_CounterBelowThresholdWhenClosed ==
    cb.failure_threshold >= 1 =>
        /\ cb.failures >= 0
        /\ cb.state = "CLOSED" => cb.failures < cb.failure_threshold

\* A breaker that was opened and closed again is CLOSED with its counter one
\* short of the threshold.
C36_Witness ==
    /\ cb.state = "CLOSED"
    /\ cb.failure_threshold = 3
    /\ cb.failures = 2
    /\ total_failed > 3

\* C37: the breaker leaves HALF_OPEN only by the outcome of a call that was
\* admitted while it was HALF_OPEN; the outcome of a call admitted earlier
\* leaves a HALF_OPEN breaker HALF_OPEN.
C37_OnlyTrialLeavesHalfOpen ==
    [][(cb.state = "HALF_OPEN" /\ cb'.state # "HALF_OPEN")
          => \E c \in Callers : FinishBy(c) /\ admitted_in[c] = "HALF_OPEN"]_vars

\* ---------------------------------------------------- claims on RequestRouter
\* The local generation failed: it raised, or its response reports an error.
LocalGenerationFailed == q_local \notin {"none", "answer"}
\* The provider's generation failed: it raised, or its response reports one.
ProviderGenerationFailed == q_provider \notin {"none", "answer"}

\* C38: when the route chosen is local and the local generation fails
\* (raises, or reports an error in its response), the provider is invoked
\* exactly once, with the "[Local Fallback]" prompt, and what it answers is
\* what generate_with_fallback returns; when the route chosen is the
\* provider and it fails, the local client is not invoked and the error is
\* raised.
C38_FallbackOnLocalFailure ==
    q_pc = "done" =>
        /\ (q_route = "local" /\ LocalGenerationFailed)
              => /\ q_providers = 1
                 /\ q_sent = FallbackPrompt
                 /\ q_result = ProviderGenerate(q_provider)
        /\ (q_route = "provider" /\ ProviderGenerationFailed)
              => /\ q_locals = 0
                 /\ q_result.kind = "raise"

\* ------------------------------------------------- claims on GameRulesServer
\* The step is a call of evaluate_question or check_guess on session s.
ToolCallOn(s) ==
    /\ v_calls' = v_calls + 1
    /\ v_last'.session = s
    /\ v_last'.tool \in {"evaluate_question", "check_guess"}

\* C39: a session's status only changes from active to solved, and solved is
\* final: on a solved session evaluate_question and check_guess return a
\* failure and leave status and both counters as they are.  On an active
\* session an accepted evaluate_question adds exactly 1 to questions_asked
\* and an accepted check_guess exactly 1 to guesses_made, and neither
\* changes the other counter.
C39_SolvedIsTerminal ==
    [][\A s \in SessionIds :
          LET old == v_sessions[s]
              new == v_sessions'[s]
          IN  /\ (old.status # "none" /\ new.status # old.status)
                     => (old.status = "active" /\ new.status = "solved")
              /\ old.status = "solved"
                     => /\ new = old
                        /\ ToolCallOn(s) => ~v_last'.success
              /\ (old.status = "active" /\ ToolCallOn(s))
                     => /\ v_last'.success
                        /\ IF v_last'.tool = "evaluate_question"
                           THEN /\ new.questions_asked = old.questions_asked + 1
                                /\ new.guesses_made = old.guesses_made
                                /\ new.status = "active"
                           ELSE /\ new.guesses_made = old.guesses_made + 1
                                /\ new.questions_asked = old.questions_asked
              /\ ~ToolCallOn(s) => (old.status # "none" => new = old)]_vars

\* A session was asked a question and given a wrong guess, then solved, and
\* a later question on it has been refused.
C39_Witness ==
    \E s \in SessionIds :
        /\ v_sessions[s] = [status |-> "solved", questions_asked |-> 1,
                            guesses_made |-> 2]
        /\ v_last = ToolResult("evaluate_question", s, FALSE, FALSE)

====
